---------------------------- MODULE Spec2Model ----------------------------
(***************************************************************************)
(* Model of the multi-shop Telegram bot of src/main.py: the product wizard *)
(* (a ConversationHandler over context.user_data), the permission check,   *)
(* and the dispatch of updates to the handlers registered in               *)
(* setup_handlers.                                                         *)
(*                                                                         *)
(* Texts are sequences of one-character strings, so that strip(), len(),   *)
(* float() and int() are computed, not assumed.  Callback data are         *)
(* sequences of the segments between '_' characters, so that               *)
(* data.split('_') and data.startswith('tag_') are computed.               *)
(* An optional value (a dict key that may be missing) is a sequence of     *)
(* length 0 (missing) or 1 (present).                                      *)
(***************************************************************************)
EXTENDS Integers, Sequences, FiniteSets, TLC

VARIABLES
    departments,    \* Firestore 'departments': the staff records
    categories,     \* Firestore 'categories'
    products,       \* Firestore 'products', in order of creation
    orders,         \* Firestore 'orders', in order of creation
    db_users,       \* Firestore 'users': each user's document, if any
    cache_users,    \* user_cache.users
    user_sessions,  \* user_cache.user_sessions: the navigation context
    keyboard,       \* callback data of the buttons of the last view delivered
    conv,           \* ConversationHandler state of each user's private chat
    user_data,      \* context.user_data of each user
    sent,           \* messages delivered to the user by the last handler run
    raised,         \* whether the last handler run ended by raising
    script,         \* history: how far the user is through the valid input sequence
    scenario,       \* history: how far the user is through the Espresso scenario
    unhandled,      \* history: the kind of the user's last update if no handler took it
    sessionWrites   \* history: product writes since the user's last wizard start

vars == <<departments, categories, products, orders, db_users, cache_users,
          user_sessions, keyboard, conv, user_data, sent, raised, script, scenario,
          unhandled, sessionWrites>>

navVars == <<orders, db_users, cache_users, user_sessions, keyboard>>

---------------------------------------------------------------------------
(* Bounds of the model *)

MaxProducts == 1    \* product documents the wizard may add
MaxImages == 1      \* photos accumulated in one session
MaxOrders == 1      \* order documents added

(* Program constants *)

PRODUCT_NAME == 0
PRODUCT_DESCRIPTION == 1
PRODUCT_PRICE == 2
PRODUCT_STOCK == 3
PRODUCT_CATEGORY == 4
PRODUCT_IMAGES == 5
END == -1           \* ConversationHandler.END: no conversation
MaxIO == 4          \* most I/O calls one wizard handler makes (get_product_stock)

Users == {1, 2}     \* Telegram user ids; in a private chat chat_id = user id
ActiveUsers == {1}  \* the users whose updates the specifications deliver
Shops == {"s1", "s2"}
ShopOwner == [s \in Shops |-> IF s = "s1" THEN 2 ELSE 1]   \* shops/<id>.ownerId
Photos == {"ph1"}

---------------------------------------------------------------------------
(* Texts and Python's str.strip, str.lower, int() and float() *)

T_Espresso == <<"E", "s", "p", "r", "e", "s", "s", "o">>
T_skip == <<"s", "k", "i", "p">>
T_350 == <<"3", ".", "5", "0">>
T_20 == <<"2", "0">>
T_sp0 == <<" ", "0">>
T_m5 == <<"-", "5">>
T_nan == <<"n", "a", "n">>
T_Drinks == <<"D", "r", "i", "n", "k", "s">>

Texts == {T_Espresso, T_skip, T_350, T_20, T_sp0, T_m5, T_nan, T_Drinks}

(* The texts a user types in answer to each prompt. *)
NameTexts == {T_Espresso, T_sp0}
DescriptionTexts == {T_skip}
PriceTexts == {T_350, T_sp0, T_m5, T_nan, T_skip}
StockTexts == {T_20, T_sp0, T_m5, T_350}
ImagesTexts == {T_skip, T_Espresso}
CategoryTexts == {T_Drinks, T_sp0}

UpperCase == <<"A", "B", "C", "D", "E", "F", "G", "H", "I", "J", "K", "L", "M",
               "N", "O", "P", "Q", "R", "S", "T", "U", "V", "W", "X", "Y", "Z">>
LowerCase == <<"a", "b", "c", "d", "e", "f", "g", "h", "i", "j", "k", "l", "m",
               "n", "o", "p", "q", "r", "s", "t", "u", "v", "w", "x", "y", "z">>
DigitChars == <<"0", "1", "2", "3", "4", "5", "6", "7", "8", "9">>

IsDigit(c) == \E i \in 1..10 : DigitChars[i] = c
DigitVal(c) == (CHOOSE i \in 1..10 : DigitChars[i] = c) - 1

LowerChar(c) ==
    IF \E i \in 1..26 : UpperCase[i] = c
    THEN LowerCase[CHOOSE i \in 1..26 : UpperCase[i] = c]
    ELSE c

Lower(s) == [i \in 1..Len(s) |-> LowerChar(s[i])]

RECURSIVE LStrip(_)
LStrip(s) == IF s # <<>> /\ Head(s) = " " THEN LStrip(Tail(s)) ELSE s

RECURSIVE RStrip(_)
RStrip(s) ==
    IF s # <<>> /\ s[Len(s)] = " " THEN RStrip(SubSeq(s, 1, Len(s) - 1)) ELSE s

(* The text as typed. *)
NoStrip(s) == s

Strip(s) == RStrip(LStrip(s))

AllDigits(s) == s # <<>> /\ \A i \in 1..Len(s) : IsDigit(s[i])

RECURSIVE DigitsVal(_)
DigitsVal(s) ==
    IF s = <<>> THEN 0
    ELSE 10 * DigitsVal(SubSeq(s, 1, Len(s) - 1)) + DigitVal(s[Len(s)])

HasSign(s) == s # <<>> /\ (Head(s) = "-" \/ Head(s) = "+")
Unsigned(s) == IF HasSign(s) THEN Tail(s) ELSE s
SignOf(s) == IF s # <<>> /\ Head(s) = "-" THEN -1 ELSE 1

(* int(s) for an already stripped s: an optional sign and decimal digits.   *)
(* ok = FALSE is ValueError.                                                *)
ParseInt(s) ==
    IF AllDigits(Unsigned(s))
    THEN [ok |-> TRUE, v |-> SignOf(s) * DigitsVal(Unsigned(s))]
    ELSE [ok |-> FALSE, v |-> 0]

DotAt(s) == IF \E i \in 1..Len(s) : s[i] = "." THEN CHOOSE i \in 1..Len(s) : s[i] = "." ELSE 0

(* The hundredths of a digit string after the decimal point. *)
FracCents(f) ==
    IF f = <<>> THEN 0
    ELSE IF Len(f) = 1 THEN 10 * DigitVal(f[1])
    ELSE 10 * DigitVal(f[1]) + DigitVal(f[2])

(* float(s) for an already stripped s.  A float is a record: kind "num"    *)
(* with its value in hundredths, or kind "nan", "inf", "ninf" (float()     *)
(* accepts 'nan', 'inf' and 'infinity' in any case, with a sign).          *)
(* Exponents are outside the texts of the model.  ok = FALSE is ValueError *)
ParseFloat(s) ==
    LET u == Unsigned(s)
        w == Lower(u)
        d == DotAt(u)
        ip == IF d = 0 THEN u ELSE SubSeq(u, 1, d - 1)
        fp == IF d = 0 THEN <<>> ELSE SubSeq(u, d + 1, Len(u))
        bad == [ok |-> FALSE, kind |-> "num", cents |-> 0]
    IN  IF w = <<"n", "a", "n">> THEN [ok |-> TRUE, kind |-> "nan", cents |-> 0]
        ELSE IF w = <<"i", "n", "f">> \/ w = <<"i", "n", "f", "i", "n", "i", "t", "y">>
        THEN [ok |-> TRUE, kind |-> IF SignOf(s) = -1 THEN "ninf" ELSE "inf", cents |-> 0]
        ELSE IF /\ (ip = <<>> \/ AllDigits(ip))
                /\ (fp = <<>> \/ AllDigits(fp))
                /\ (ip # <<>> \/ fp # <<>>)
        THEN [ok |-> TRUE, kind |-> "num",
              cents |-> SignOf(s) * (100 * DigitsVal(ip) + FracCents(fp))]
        ELSE bad

(* price < 0  on a float. *)
FloatLeZeroStrict(p) == p.kind = "ninf" \/ (p.kind = "num" /\ p.cents < 0)

(* Python's  price <= 0  on a float: every comparison with nan is False.   *)
FloatLeZero(p) == p.kind = "ninf" \/ (p.kind = "num" /\ p.cents <= 0)

---------------------------------------------------------------------------
(* The external store *)

CatIds == {"cat1", "cat2", "cat9"}      \* cat9: a category that no longer exists

InitCategories ==
    { [id |-> "cat1", shopId |-> "s1", name |-> <<"H", "o", "t">>, order |-> 0, pos |-> 1],
      [id |-> "cat2", shopId |-> "s1", name |-> <<"H", "o", "t">>, order |-> 0, pos |-> 2],
      [id |-> "cat3", shopId |-> "s1", name |-> <<"C", "o", "l", "d">>, order |-> 1, pos |-> 3] }

(* Staff records.  A chat id is an integer: a user's private chat is the    *)
(* user's id, a group chat is negative, 0 stands for a missing or empty id. *)
GroupAdmins == {2}      \* get_chat_administrators of the staff group chat

DeptAdmin1 == [shopId |-> "s1", role |-> "admin", telegramChatId |-> 0, adminChatId |-> 1]
DeptCashierGroup ==
    [shopId |-> "s1", role |-> "cashier", telegramChatId |-> -100, adminChatId |-> 0]
DeptKitchen == [shopId |-> "s2", role |-> "kitchen", telegramChatId |-> 1, adminChatId |-> 1]
DeptAdminNoChat == [shopId |-> "s2", role |-> "admin", telegramChatId |-> 2, adminChatId |-> 0]

DeptConfigs ==
    { {DeptAdmin1, DeptKitchen, DeptAdminNoChat},
      {DeptCashierGroup, DeptKitchen} }      \* s2 without an admin/cashier record

(* get_category_data: the document as an optional value; a failed read is  *)
(* caught inside and gives None.                                           *)
get_category_data(category_id, ok) ==
    IF ok /\ \E c \in categories : c.id = category_id
    THEN <<CHOOSE c \in categories : c.id = category_id>>
    ELSE <<>>

---------------------------------------------------------------------------
(* The permission check *)

Truthy(chat_id) == chat_id # 0

(* The chat ids is_admin_user collects for one staff record. *)
chat_ids_to_check(dept) ==
    IF dept.role = "cashier"
    THEN { c \in {dept.telegramChatId, dept.adminChatId} : Truthy(c) }
    ELSE IF dept.role = "admin"
    THEN { c \in {dept.adminChatId} : Truthy(c) }
    ELSE {}

(* The body of  `if chat_id:`  for one chat id: the id comparison, the     *)
(* group-administrator lookup (gaOk: the lookup did not raise), and then   *)
(* the  return True  that follows both tests.                              *)
check_chat_id(telegram_id, chat_id, gaOk) ==
    IF telegram_id = chat_id \/ telegram_id = -chat_id THEN TRUE
    ELSE IF chat_id < 0 /\ gaOk /\ telegram_id \in GroupAdmins THEN TRUE
    ELSE TRUE

(* is_admin_user with  return True  in the outer except branch (line 242): *)
(* a failed departments query lets the user in, the fault C20 excludes.    *)
is_admin_user_fail_open(telegram_id, shop_id, qOk, gaOk) ==
    \/ ~qOk
    \/ \E dept \in departments :
          /\ dept.shopId = shop_id
          /\ dept.role \in {"admin", "cashier"}
          /\ \E chat_id \in chat_ids_to_check(dept) :
                Truthy(chat_id) /\ check_chat_id(telegram_id, chat_id, gaOk)

(* is_admin_user: qOk is whether the departments query succeeded (a        *)
(* failure is caught and gives False).  Every truthy chat id returns, so   *)
(* the order in which the records stream does not matter.                  *)
is_admin_user(telegram_id, shop_id, qOk, gaOk) ==
    /\ qOk
    /\ \E dept \in departments :
          /\ dept.shopId = shop_id
          /\ dept.role \in {"admin", "cashier"}
          /\ \E chat_id \in chat_ids_to_check(dept) :
                Truthy(chat_id) /\ check_chat_id(telegram_id, chat_id, gaOk)

---------------------------------------------------------------------------
(* context.user_data *)

EmptyProductData ==
    [name |-> <<>>, description |-> <<>>, price |-> <<>>, stock |-> <<>>,
     category |-> <<>>, category_id |-> <<>>]

EmptyUserData ==
    [shop_id |-> <<>>, product_data |-> <<>>, creating_category |-> <<>>,
     product_images |-> <<>>]

HasProductData(ud) == ud.product_data # <<>>

SetField(ud, field, val) ==
    [ud EXCEPT !.product_data = <<[ud.product_data[1] EXCEPT ![field] = <<val>>]>>]

(* Ret with the wizard's data kept in one store for all users (as          *)
(* context.bot_data would be) instead of context.user_data: the fault C25  *)
(* excludes.                                                               *)
Ret_shared_data(u, state, ud, msgs) ==
    /\ conv' = [conv EXCEPT ![u] = state]
    /\ user_data' = [v \in Users |-> ud]
    /\ sent' = [sent EXCEPT ![u] = msgs]
    /\ raised' = [raised EXCEPT ![u] = FALSE]

(* How a handler run ends: by returning the next conversation state, or by *)
(* raising.  When a handler raises, ConversationHandler keeps the state    *)
(* and the Application passes the exception to error_handler, which logs   *)
(* it; what the handler had already written to user_data stays written.    *)
Ret(u, state, ud, msgs) ==
    /\ conv' = [conv EXCEPT ![u] = state]
    /\ user_data' = [user_data EXCEPT ![u] = ud]
    /\ sent' = [sent EXCEPT ![u] = msgs]
    /\ raised' = [raised EXCEPT ![u] = FALSE]

Raise(u, ud, msgs) ==
    /\ conv' = conv
    /\ user_data' = [user_data EXCEPT ![u] = ud]
    /\ sent' = [sent EXCEPT ![u] = msgs]
    /\ raised' = [raised EXCEPT ![u] = TRUE]

(* A send (reply_text, edit_message_text) as call number i of the handler: *)
(* it fails when i is in F, the set of failing I/O calls of this run.      *)
Ok(i, F) == i \notin F

---------------------------------------------------------------------------
(* The wizard's handlers.  u is the user, F the set of I/O calls of the    *)
(* run that fail (each handler numbers its calls in the order it makes     *)
(* them).                                                                  *)

(* start_add_product with the assignments of lines 737-738 moved before   *)
(* the permission check: the fault C4 excludes.                            *)
start_add_product_store_first(u, data, F) ==
    LET shop_id == data[3]
        ud == user_data[u]
        ud2 == [ud EXCEPT !.shop_id = <<shop_id>>, !.product_data = <<EmptyProductData>>]
    IN  /\ UNCHANGED <<departments, categories, products>>
        /\ IF ~Ok(1, F) THEN Raise(u, ud, <<>>)
           ELSE IF ~is_admin_user(u, shop_id, Ok(2, F), Ok(3, F))
           THEN IF Ok(4, F) THEN Ret(u, END, ud2, <<"permission_denied">>)
                ELSE Raise(u, ud2, <<>>)
           ELSE IF Ok(4, F) THEN Ret(u, PRODUCT_NAME, ud2, <<"ask_name">>)
                ELSE Raise(u, ud2, <<>>)

(* start_add_product.  Calls: 1 query.answer, 2 the departments query,     *)
(* 3 get_chat_administrators, 4 edit_message_text.                         *)
start_add_product(u, data, F) ==
    LET shop_id == data[3]
        ud == user_data[u]
        ud2 == [ud EXCEPT !.shop_id = <<shop_id>>, !.product_data = <<EmptyProductData>>]
    IN  /\ UNCHANGED <<departments, categories, products>>
        /\ IF ~Ok(1, F) THEN Raise(u, ud, <<>>)
           ELSE IF ~is_admin_user(u, shop_id, Ok(2, F), Ok(3, F))
           THEN IF Ok(4, F) THEN Ret(u, END, ud, <<"permission_denied">>)
                ELSE Raise(u, ud, <<>>)
           ELSE IF Ok(4, F) THEN Ret(u, PRODUCT_NAME, ud2, <<"ask_name">>)
                ELSE Raise(u, ud2, <<>>)

(* get_product_name without the strip() of line 749: the fault the first   *)
(* half of C10 excludes.                                                   *)
get_product_name_nostrip(u, text, F) ==
    LET product_name == NoStrip(text)
        ud == user_data[u]
    IN  /\ UNCHANGED <<departments, categories, products>>
        /\ IF Len(product_name) < 2
           THEN IF Ok(1, F) THEN Ret(u, PRODUCT_NAME, ud, <<"name_too_short">>)
                ELSE Raise(u, ud, <<>>)
           ELSE IF ~HasProductData(ud) THEN Raise(u, ud, <<>>)
           ELSE IF Ok(1, F)
                THEN Ret(u, PRODUCT_DESCRIPTION, SetField(ud, "name", product_name),
                         <<"ask_description">>)
                ELSE Raise(u, SetField(ud, "name", product_name), <<>>)

(* get_product_name.  Calls: 1 reply_text. *)
get_product_name(u, text, F) ==
    LET product_name == Strip(text)
        ud == user_data[u]
    IN  /\ UNCHANGED <<departments, categories, products>>
        /\ IF Len(product_name) < 2
           THEN IF Ok(1, F) THEN Ret(u, PRODUCT_NAME, ud, <<"name_too_short">>)
                ELSE Raise(u, ud, <<>>)
           ELSE IF ~HasProductData(ud) THEN Raise(u, ud, <<>>)   \* KeyError
           ELSE IF Ok(1, F)
                THEN Ret(u, PRODUCT_DESCRIPTION, SetField(ud, "name", product_name),
                         <<"ask_description">>)
                ELSE Raise(u, SetField(ud, "name", product_name), <<>>)

(* get_product_description.  Calls: 1 reply_text. *)
get_product_description(u, text, F) ==
    LET description == Strip(text)
        ud == user_data[u]
    IN  /\ UNCHANGED <<departments, categories, products>>
        /\ IF ~HasProductData(ud) THEN Raise(u, ud, <<>>)        \* KeyError
           ELSE IF Ok(1, F)
                THEN Ret(u, PRODUCT_PRICE, SetField(ud, "description", description),
                         <<"ask_price">>)
                ELSE Raise(u, SetField(ud, "description", description), <<>>)

(* get_product_price with  price < 0  for the  price <= 0  of line 780:    *)
(* the fault C9 excludes.                                                  *)
get_product_price_zero_ok(u, text, F) ==
    LET parsed == ParseFloat(Strip(text))
        price == [kind |-> parsed.kind, cents |-> parsed.cents]
        ud == user_data[u]
    IN  /\ UNCHANGED <<departments, categories, products>>
        /\ IF ~parsed.ok \/ FloatLeZeroStrict(price)
           THEN IF Ok(1, F) THEN Ret(u, PRODUCT_PRICE, ud, <<"invalid_price">>)
                ELSE Raise(u, ud, <<>>)
           ELSE IF ~HasProductData(ud) THEN Raise(u, ud, <<>>)
           ELSE IF Ok(1, F)
                THEN Ret(u, PRODUCT_STOCK, SetField(ud, "price", price), <<"ask_stock">>)
                ELSE Raise(u, SetField(ud, "price", price), <<>>)

(* get_product_price.  Calls: 1 reply_text (the next prompt, or the        *)
(* reprompt of the  except ValueError  branch).                            *)
get_product_price(u, text, F) ==
    LET parsed == ParseFloat(Strip(text))
        price == [kind |-> parsed.kind, cents |-> parsed.cents]
        ud == user_data[u]
    IN  /\ UNCHANGED <<departments, categories, products>>
        /\ IF ~parsed.ok \/ FloatLeZero(price)                   \* ValueError
           THEN IF Ok(1, F) THEN Ret(u, PRODUCT_PRICE, ud, <<"invalid_price">>)
                ELSE Raise(u, ud, <<>>)
           ELSE IF ~HasProductData(ud) THEN Raise(u, ud, <<>>)   \* KeyError
           ELSE IF Ok(1, F)
                THEN Ret(u, PRODUCT_STOCK, SetField(ud, "price", price), <<"ask_stock">>)
                ELSE Raise(u, SetField(ud, "price", price), <<>>)


(* get_product_stock, with show_category_selection.  Calls: 1 reply_text   *)
(* (the confirmation, or the reprompt), 2 the categories query (a failure  *)
(* is caught in get_shop_categories), 3 reply_text with the keyboard,      *)
(* 4 reply_text of show_category_selection's except branch.                *)
get_product_stock(u, text, F) ==
    LET parsed == ParseInt(Strip(text))
        ud == user_data[u]
        ud2 == SetField(ud, "stock", parsed.v)
    IN  /\ UNCHANGED <<departments, categories, products>>
        /\ IF ~parsed.ok \/ parsed.v < 0                         \* ValueError
           THEN IF Ok(1, F) THEN Ret(u, PRODUCT_STOCK, ud, <<"invalid_stock">>)
                ELSE Raise(u, ud, <<>>)
           ELSE IF ~HasProductData(ud) THEN Raise(u, ud, <<>>)   \* KeyError
           ELSE IF ~Ok(1, F) THEN Raise(u, ud2, <<>>)
           ELSE IF Ok(3, F)
                THEN Ret(u, PRODUCT_CATEGORY, ud2, <<"ask_category", "select_category">>)
           ELSE IF Ok(4, F)
                THEN Ret(u, PRODUCT_CATEGORY, ud2, <<"ask_category", "error_loading_categories">>)
           ELSE Raise(u, ud2, <<"ask_category">>)

(* handle_category_selection for a callback query (the only updates the    *)
(* PRODUCT_CATEGORY state routes to it).  Calls: 1 query.answer, 2 the     *)
(* category read (a failure is caught in get_category_data) or, for        *)
(* create_new_category, the edit; 3 edit_message_text; 4 the edit of the   *)
(* except branch.  When the category is not found, show_category_selection *)
(* is called on a callback update, whose update.message is None: both its  *)
(* reply_text calls raise AttributeError, which the except branch of       *)
(* handle_category_selection catches.                                      *)
handle_category_selection(u, data, F) ==
    LET ud == user_data[u]
        category_id == data[3]
        category_data == get_category_data(category_id, Ok(2, F))
        ud2 == SetField(SetField(ud, "category", category_data[1].name),
                        "category_id", category_id)
    IN  /\ UNCHANGED <<departments, categories, products>>
        /\ IF ~Ok(1, F) THEN Raise(u, ud, <<>>)
           ELSE IF data = <<"create", "new", "category">>
           THEN IF Ok(2, F)
                THEN Ret(u, PRODUCT_CATEGORY, [ud EXCEPT !.creating_category = <<TRUE>>],
                         <<"ask_category_name">>)
                ELSE Raise(u, ud, <<>>)
           ELSE IF category_data # <<>>
           THEN IF ~HasProductData(ud)                           \* KeyError, caught
                THEN IF Ok(4, F)
                     THEN Ret(u, PRODUCT_CATEGORY, ud, <<"error_loading_category">>)
                     ELSE Raise(u, ud, <<>>)
                ELSE IF Ok(3, F) THEN Ret(u, PRODUCT_IMAGES, ud2, <<"ask_images">>)
                ELSE IF Ok(4, F)
                     THEN Ret(u, PRODUCT_CATEGORY, ud2, <<"error_loading_category">>)
                ELSE Raise(u, ud2, <<>>)
           ELSE IF Ok(3, F)
                THEN IF Ok(4, F)
                     THEN Ret(u, PRODUCT_CATEGORY, ud,
                              <<"category_not_found", "error_loading_category">>)
                     ELSE Raise(u, ud, <<"category_not_found">>)
           ELSE IF Ok(4, F) THEN Ret(u, PRODUCT_CATEGORY, ud, <<"error_loading_category">>)
           ELSE Raise(u, ud, <<>>)

(* get_product_images.  Calls: 1 bot.get_file, 2 reply_text, 3 reply_text  *)
(* of the except branch.                                                   *)
get_product_images(u, photo, F) ==
    LET ud == user_data[u]
        ud1 == IF ud.product_images = <<>> THEN [ud EXCEPT !.product_images = << <<>> >>]
               ELSE ud
        ud2 == [ud1 EXCEPT !.product_images = <<Append(ud1.product_images[1], photo)>>]
    IN  /\ UNCHANGED <<departments, categories, products>>
        /\ IF ~Ok(1, F) THEN Raise(u, ud1, <<>>)
           ELSE IF Ok(2, F) THEN Ret(u, PRODUCT_IMAGES, ud2, <<"added_image">>)
           ELSE IF Ok(3, F) THEN Ret(u, PRODUCT_IMAGES, ud2, <<"error_processing_image">>)
           ELSE Raise(u, ud2, <<>>)

(* The documents of 'products'.  doc_ref = collection.document() draws a   *)
(* fresh id.                                                               *)
InitProducts ==
    << [id |-> "p1", shopId |-> "s1", name |-> T_Espresso, description |-> <<>>,
        price |-> [kind |-> "num", cents |-> 350], stock |-> 3,
        category |-> <<"H", "o", "t">>, images |-> <<"ph1">>, isActive |-> TRUE],
       [id |-> "p2", shopId |-> "s1", name |-> T_Espresso, description |-> <<>>,
        price |-> [kind |-> "num", cents |-> 350], stock |-> 3,
        category |-> <<"H", "o", "t">>, images |-> <<>>, isActive |-> FALSE],
       [id |-> "p3", shopId |-> "s1", name |-> T_Espresso, description |-> <<>>,
        price |-> [kind |-> "num", cents |-> 350], stock |-> 0,
        category |-> <<"H", "o", "t">>, images |-> <<>>, isActive |-> TRUE] >>

NewProductIds == <<"n1", "n2", "n3", "n4">>

NumWritten == Len(products) - Len(InitProducts)

(* The  product_doc  create_product builds from user_data. *)
product_doc(ud) ==
    LET product_data == ud.product_data[1]
    IN  [id |-> NewProductIds[NumWritten + 1],
         shopId |-> ud.shop_id[1],
         name |-> product_data.name[1],
         description |-> product_data.description[1],
         price |-> product_data.price[1],
         stock |-> product_data.stock[1],
         category |-> product_data.category[1],
         images |-> IF ud.product_images = <<>> THEN <<>> ELSE ud.product_images[1],
         isActive |-> TRUE]

(* Whether building product_doc raises KeyError. *)
DocKeyError(ud) ==
    \/ ud.shop_id = <<>>
    \/ ud.product_data = <<>>
    \/ \E f \in {"name", "description", "price", "stock", "category"} :
          ud.product_data[1][f] = <<>>

(* create_product, then skip_images' return of ConversationHandler.END.    *)
(* Calls: 1 doc_ref.set, 2 reply_text of the summary, 3 reply_text of the  *)
(* except branch.                                                          *)
create_product(u, F) ==
    LET ud == user_data[u]
    IN  /\ UNCHANGED <<departments, categories>>
        /\ IF DocKeyError(ud) \/ ~Ok(1, F)
           THEN /\ products' = products
                /\ IF Ok(3, F) THEN Ret(u, END, ud, <<"error_creating_product">>)
                   ELSE Raise(u, ud, <<>>)
           ELSE /\ products' = Append(products, product_doc(ud))
                /\ IF Ok(2, F) THEN Ret(u, END, EmptyUserData, <<"product_created">>)
                   ELSE IF Ok(3, F) THEN Ret(u, END, ud, <<"error_creating_product">>)
                   ELSE Raise(u, ud, <<>>)

FinishWords == {<<"s", "k", "i", "p">>, <<"d", "o", "n", "e">>, <<"f", "i", "n", "i", "s", "h">>}

(* skip_images.  Calls, when the text is no finish word: 1 reply_text. *)
skip_images(u, text, F) ==
    IF Lower(Strip(text)) \in FinishWords
    THEN create_product(u, F)
    ELSE /\ UNCHANGED <<departments, categories, products>>
         /\ IF Ok(1, F) THEN Ret(u, PRODUCT_IMAGES, user_data[u], <<"send_image_or_skip">>)
            ELSE Raise(u, user_data[u], <<>>)

(* cancel_product_creation.  Calls: 1 reply_text. *)
cancel_product_creation(u, F) ==
    /\ UNCHANGED <<departments, categories, products>>
    /\ IF Ok(1, F) THEN Ret(u, END, EmptyUserData, <<"cancelled">>)
       ELSE Raise(u, EmptyUserData, <<>>)

---------------------------------------------------------------------------
(* Updates.  An update is [kind, data]: a text message (data: the text), a *)
(* photo message (data: the file id), a command (data: its name) or a      *)
(* callback query (data: the segments of callback_data).                   *)

TextUpdate(t) == [kind |-> "text", data |-> t]
PhotoUpdate(p) == [kind |-> "photo", data |-> <<p>>]
CommandUpdate(c) == [kind |-> "command", data |-> <<c>>]
CallbackUpdate(d) == [kind |-> "callback", data |-> d]

AddProductData == { <<"add", "product", s>> : s \in Shops }
CategorySelectData == { <<"category", "select", c>> : c \in CatIds }
CreateNewCategoryData == <<"create", "new", "category">>

WizardCallbackData == AddProductData \cup CategorySelectData \cup {CreateNewCategoryData}

(* The I/O calls that fail in one run of a handler that makes up to n      *)
(* calls: none, a single call, or every call from the i-th on (an outage). *)
Failures(n) == {{}} \cup { {i} : i \in 1..n } \cup { i..n : i \in 1..n }

(* The number of I/O calls of the wizard handler that takes the update. *)
WizardIO(state, upd) ==
    IF upd.kind = "command" THEN 1
    ELSE IF state \in {END, PRODUCT_STOCK, PRODUCT_CATEGORY} THEN 4
    ELSE IF state = PRODUCT_IMAGES THEN 3
    ELSE 1

(* pattern r'^add_product_' *)
MatchesAddProduct(data) == Len(data) >= 3 /\ data[1] = "add" /\ data[2] = "product"

(* pattern r'^category_select_|^create_new_category$' *)
MatchesCategoryChoice(data) ==
    \/ Len(data) >= 3 /\ data[1] = "category" /\ data[2] = "select"
    \/ data = CreateNewCategoryData

(* ConversationHandler.check_update: with no conversation for the chat,    *)
(* the entry points; in a conversation, the handlers of its state and then *)
(* the fallbacks (allow_reentry is not set, so not the entry points).      *)
conv_check(u, upd) ==
    IF conv[u] = END THEN upd.kind = "callback" /\ MatchesAddProduct(upd.data)
    ELSE \/ upd.kind = "text" /\ conv[u] \in {PRODUCT_NAME, PRODUCT_DESCRIPTION,
                                              PRODUCT_PRICE, PRODUCT_STOCK, PRODUCT_IMAGES}
         \/ upd.kind = "callback" /\ conv[u] = PRODUCT_CATEGORY
              /\ MatchesCategoryChoice(upd.data)
         \/ upd.kind = "photo" /\ conv[u] = PRODUCT_IMAGES
         \/ upd.kind = "command" /\ upd.data = <<"cancel">>

(* ConversationHandler.handle_update: the handler conv_check found. *)
conv_handler(u, upd, F) ==
    IF conv[u] = END THEN start_add_product(u, upd.data, F)
    ELSE IF upd.kind = "command" THEN cancel_product_creation(u, F)
    ELSE IF upd.kind = "photo" THEN get_product_images(u, upd.data[1], F)
    ELSE IF upd.kind = "callback" THEN handle_category_selection(u, upd.data, F)
    ELSE IF conv[u] = PRODUCT_NAME THEN get_product_name(u, upd.data, F)
    ELSE IF conv[u] = PRODUCT_DESCRIPTION THEN get_product_description(u, upd.data, F)
    ELSE IF conv[u] = PRODUCT_PRICE THEN get_product_price(u, upd.data, F)
    ELSE IF conv[u] = PRODUCT_STOCK THEN get_product_stock(u, upd.data, F)
    ELSE skip_images(u, upd.data, F)

---------------------------------------------------------------------------
(* History variables.  script[u] counts the steps of the valid input       *)
(* sequence the user has supplied in order, every I/O call succeeding:     *)
(* 1 the Add Product press of an authorized user, 2 a valid name,          *)
(* 3 a description, 4 a valid price, 5 a valid stock, 6 the selection of   *)
(* an existing category, 7 the skip/done token.  Anything else resets it.  *)

ValidName(t) == Len(Strip(t)) >= 2
ValidPrice(t) ==
    LET p == ParseFloat(Strip(t)) IN p.ok /\ p.kind = "num" /\ p.cents > 0
ValidStock(t) ==
    LET n == ParseInt(Strip(t)) IN n.ok /\ n.v >= 0

ScriptStep(u, upd, F) ==
    IF F # {} THEN 0
    ELSE IF upd.kind = "callback" /\ upd.data \in AddProductData
    THEN IF is_admin_user(u, upd.data[3], TRUE, TRUE) THEN 1 ELSE 0
    ELSE IF script[u] = 1 /\ upd.kind = "text" /\ ValidName(upd.data) THEN 2
    ELSE IF script[u] = 2 /\ upd.kind = "text" THEN 3
    ELSE IF script[u] = 3 /\ upd.kind = "text" /\ ValidPrice(upd.data) THEN 4
    ELSE IF script[u] = 4 /\ upd.kind = "text" /\ ValidStock(upd.data) THEN 5
    ELSE IF script[u] = 5 /\ upd.kind = "callback" /\ upd.data \in CategorySelectData
            /\ \E c \in categories : c.id = upd.data[3] THEN 6
    ELSE IF script[u] = 6 /\ upd.kind = "text" /\ Lower(Strip(upd.data)) \in FinishWords
    THEN 7
    ELSE 0

(* The scenario of the specification: name "Espresso", description "skip", *)
(* price "3.50", stock "20", the existing category cat1, images "skip".    *)
ScenarioInputs ==
    << TextUpdate(T_Espresso), TextUpdate(T_skip), TextUpdate(T_350), TextUpdate(T_20),
       CallbackUpdate(<<"category", "select", "cat1">>), TextUpdate(T_skip) >>

(* scenario[u] follows script[u] as long as the inputs are the scenario's. *)
ScenarioStep(u, upd, F) ==
    IF ScriptStep(u, upd, F) = 1 THEN 1
    ELSE IF /\ scenario[u] \in 1..6
            /\ ScriptStep(u, upd, F) = scenario[u] + 1
            /\ upd = ScenarioInputs[scenario[u]]
    THEN scenario[u] + 1
    ELSE 0

History(u, upd, F) ==
    /\ script' = [script EXCEPT ![u] = ScriptStep(u, upd, F)]
    /\ scenario' = [scenario EXCEPT ![u] = ScenarioStep(u, upd, F)]
    /\ sessionWrites' =
          [sessionWrites EXCEPT ![u] =
              IF ScriptStep(u, upd, F) = 1
                 \/ (user_data[u].product_data = <<>> /\ user_data'[u].product_data # <<>>)
              THEN 0
              ELSE @ + (Len(products') - Len(products))]

---------------------------------------------------------------------------
(* The wizard on its own: every update a user sends in the private chat is *)
(* offered to the ConversationHandler.                                     *)

Init ==
    /\ departments \in DeptConfigs
    /\ categories = InitCategories
    /\ products = InitProducts
    /\ orders = <<>>
    /\ db_users = [u \in Users |-> <<>>]
    /\ cache_users = [u \in Users |-> <<>>]
    /\ user_sessions = [u \in Users |-> <<>>]
    /\ keyboard = [u \in Users |-> {}]
    /\ conv = [u \in Users |-> END]
    /\ user_data = [u \in Users |-> EmptyUserData]
    /\ sent = [u \in Users |-> <<>>]
    /\ raised = [u \in Users |-> FALSE]
    /\ script = [u \in Users |-> 0]
    /\ scenario = [u \in Users |-> 0]
    /\ unhandled = [u \in Users |-> "none"]
    /\ sessionWrites = [u \in Users |-> 0]

TextsFor(state) ==
    IF state = PRODUCT_NAME THEN NameTexts
    ELSE IF state = PRODUCT_DESCRIPTION THEN DescriptionTexts
    ELSE IF state = PRODUCT_PRICE THEN PriceTexts
    ELSE IF state = PRODUCT_STOCK THEN StockTexts
    ELSE IF state = PRODUCT_IMAGES THEN ImagesTexts
    ELSE IF state = PRODUCT_CATEGORY THEN CategoryTexts
    ELSE Texts

NumImages(u) ==
    IF user_data[u].product_images = <<>> THEN 0 ELSE Len(user_data[u].product_images[1])

(* The bounds: a wizard is started, and completed, only while fewer than   *)
(* MaxProducts documents were added; a photo is sent only while fewer than *)
(* MaxImages are accumulated; a text answers the prompt of the state.      *)
(* A photo is sent at the image step or outside a conversation, a category *)
(* button is pressed at the category step or outside a conversation.       *)
WithinBounds(u, upd) ==
    /\ upd.kind = "text" => upd.data \in TextsFor(conv[u])
    /\ upd.kind = "photo" => NumImages(u) < MaxImages /\ conv[u] \in {PRODUCT_IMAGES, END}
    /\ (upd.kind = "callback" /\ MatchesCategoryChoice(upd.data))
          => conv[u] \in {PRODUCT_CATEGORY, END}
    /\ (upd.kind = "callback" /\ MatchesAddProduct(upd.data)) => NumWritten < MaxProducts
    /\ (upd.kind = "text" /\ conv[u] = PRODUCT_IMAGES) => NumWritten < MaxProducts

(* An update no handler takes is dropped: nothing but the history changes. *)
Dropped(u, upd) ==
    /\ unhandled' = [unhandled EXCEPT ![u] = upd.kind]
    /\ UNCHANGED <<departments, categories, products, conv, user_data, sent, raised,
                   orders, db_users, cache_users, user_sessions, keyboard>>

Taken(u) == unhandled' = [unhandled EXCEPT ![u] = "none"]

ConvUpdate(u, upd, F) ==
    /\ WithinBounds(u, upd)
    /\ conv_check(u, upd)
    /\ conv_handler(u, upd, F)
    /\ UNCHANGED navVars
    /\ Taken(u)
    /\ History(u, upd, F)

WizardPress(u, d) == \E F \in Failures(4) : ConvUpdate(u, CallbackUpdate(d), F)
WizardText(u, t) ==
    \E F \in Failures(WizardIO(conv[u], TextUpdate(t))) : ConvUpdate(u, TextUpdate(t), F)
WizardPhoto(u, p) == \E F \in Failures(3) : ConvUpdate(u, PhotoUpdate(p), F)
WizardCancel(u) == \E F \in Failures(1) : ConvUpdate(u, CommandUpdate("cancel"), F)

ConvNext ==
    \E u \in ActiveUsers :
        \/ \E d \in WizardCallbackData : WizardPress(u, d)
        \/ \E t \in Texts : WizardText(u, t)
        \/ \E p \in Photos : WizardPhoto(u, p)
        \/ WizardCancel(u)

ConvSpec == Init /\ [][ConvNext]_vars

---------------------------------------------------------------------------
(* The wizard with stray updates: the user also sends updates that the     *)
(* ConversationHandler does not accept in its state (a text at the         *)
(* category step, an Add Product press during a conversation, a text or a  *)
(* photo outside one), which it drops.                                     *)

StrayUpdate(u, upd) ==
    /\ WithinBounds(u, upd)
    /\ ~conv_check(u, upd)
    /\ Dropped(u, upd)
    /\ History(u, upd, {})

StrayPress(u, d) == StrayUpdate(u, CallbackUpdate(d))
StrayText(u, t) == StrayUpdate(u, TextUpdate(t))
StrayPhoto(u, p) == StrayUpdate(u, PhotoUpdate(p))
StrayCancel(u) == StrayUpdate(u, CommandUpdate("cancel"))

StrayNext ==
    \/ ConvNext
    \/ \E u \in ActiveUsers :
          \/ \E d \in WizardCallbackData : StrayPress(u, d)
          \/ \E t \in Texts : StrayText(u, t)
          \/ \E p \in Photos : StrayPhoto(u, p)
          \/ StrayCancel(u)

StraySpec == Init /\ [][StrayNext]_vars

---------------------------------------------------------------------------
(* Navigation: the store reads *)

(* shops/<shop_id>; a failed read is caught and gives None. *)
get_shop_data(shop_id, ok) ==
    IF ok /\ shop_id \in Shops
    THEN <<[id |-> shop_id, ownerId |-> ShopOwner[shop_id]]>>
    ELSE <<>>

(* products/<product_id>; a failed read is caught and gives None. *)
get_product_data(product_id, ok) ==
    IF ok /\ \E i \in 1..Len(products) : products[i].id = product_id
    THEN <<products[CHOOSE i \in 1..Len(products) : products[i].id = product_id]>>
    ELSE <<>>

(* get_shop_categories: the categories of the shop, [] when the query      *)
(* fails; sorted by 'order', ties in the order the query returned them.    *)
get_shop_categories(shop_id, ok) ==
    IF ok THEN { c \in categories : c.shopId = shop_id } ELSE {}

CatBefore(a, b) == a.order < b.order \/ (a.order = b.order /\ a.pos < b.pos)

(* get_category_products: the positions in 'products' of the documents of  *)
(* the shop whose category field is the category's name; [] when the       *)
(* category read (ok1) or the query (ok2) fails.                           *)
get_category_products(shop_id, category_id, ok1, ok2) ==
    LET category_data == get_category_data(category_id, ok1)
    IN  IF category_data = <<>> \/ ~ok2 THEN {}
        ELSE { i \in 1..Len(products) :
                 /\ products[i].shopId = shop_id
                 /\ products[i].category = category_data[1].name }

---------------------------------------------------------------------------
(* Navigation: the handlers *)

Session(shop_id, view, category, product) ==
    <<[current_shop |-> shop_id, current_view |-> view,
       current_category |-> category, current_product |-> product]>>

(* A handler run that returns having delivered msgs; kb is the keyboard of *)
(* the last message the user now has.                                      *)
Deliver(u, msgs, kb) ==
    /\ sent' = [sent EXCEPT ![u] = msgs]
    /\ keyboard' = [keyboard EXCEPT ![u] = kb]
    /\ raised' = [raised EXCEPT ![u] = FALSE]

(* send_error_message: the failure of its own send is caught. *)
send_error_message(u, message, ok) ==
    IF ok THEN Deliver(u, <<message>>, {}) ELSE Deliver(u, <<>>, keyboard[u])

(* update_user_shop_interaction with the cache updated before the document *)
(* (lines 1117 and 1111-1114 exchanged): a failed update leaves the cache  *)
(* ahead of the document, the fault C35 excludes.                          *)
update_user_shop_interaction_cache_first(u, shop_id, ok, db, cache) ==
    /\ cache_users' =
          IF cache[u] # <<>>
          THEN [cache EXCEPT ![u] = <<[last_shop_id |-> <<shop_id>>]>>]
          ELSE cache
    /\ db_users' =
          IF ok /\ db[u] # <<>>
          THEN [db EXCEPT ![u] = <<[last_shop_id |-> <<shop_id>>]>>]
          ELSE db

(* update_user_shop_interaction on the user documents db and the cache:    *)
(* update() of a missing document raises, which is caught like a failed    *)
(* call; the cache is updated after the document, for a cached user only.  *)
update_user_shop_interaction(u, shop_id, ok, db, cache) ==
    IF ok /\ db[u] # <<>>
    THEN /\ db_users' = [db EXCEPT ![u] = <<[last_shop_id |-> <<shop_id>>]>>]
         /\ cache_users' =
               IF cache[u] # <<>>
               THEN [cache EXCEPT ![u] = <<[last_shop_id |-> <<shop_id>>]>>]
               ELSE cache
    ELSE /\ db_users' = db
         /\ cache_users' = cache

(* show_shop_menu that updates the session it finds instead of replacing   *)
(* it (lines 346-349): the category and product of the earlier view stay,  *)
(* the fault C24 excludes.                                                 *)
show_shop_menu_keep_session(u, shop_id, F, k, db, cache) ==
    LET is_admin == is_admin_user(u, shop_id, Ok(k + 2, F), Ok(k + 3, F))
        cats == get_shop_categories(shop_id, Ok(k + 4, F))
        kb == { <<"category", shop_id, c.id>> : c \in cats }
                \cup (IF is_admin THEN {<<"add", "product", shop_id>>} ELSE {})
                \cup {<<"shop", shop_id>>}
        old == IF user_sessions[u] = <<>> THEN Session(shop_id, "shop_menu", <<>>, <<>>)[1]
               ELSE user_sessions[u][1]
    IN  /\ update_user_shop_interaction(u, shop_id, Ok(k + 1, F), db, cache)
        /\ user_sessions' =
              [user_sessions EXCEPT ![u] =
                  <<[old EXCEPT !.current_shop = shop_id, !.current_view = "shop_menu"]>>]
        /\ UNCHANGED orders
        /\ IF Ok(k + 5, F) THEN Deliver(u, <<"shop_menu">>, kb)
           ELSE send_error_message(u, "Failed to load shop menu", Ok(k + 6, F))

(* show_shop_menu without the  if is_admin  of lines 323-324: a menu with   *)
(* no category never offers Add Product, the fault C23 excludes.           *)
show_shop_menu_no_button_when_empty(u, shop_id, F, k, db, cache) ==
    LET is_admin == is_admin_user(u, shop_id, Ok(k + 2, F), Ok(k + 3, F))
        cats == get_shop_categories(shop_id, Ok(k + 4, F))
        kb == { <<"category", shop_id, c.id>> : c \in cats }
                \cup (IF is_admin /\ cats # {} THEN {<<"add", "product", shop_id>>} ELSE {})
                \cup {<<"shop", shop_id>>}
    IN  /\ update_user_shop_interaction(u, shop_id, Ok(k + 1, F), db, cache)
        /\ user_sessions' = [user_sessions EXCEPT ![u] = Session(shop_id, "shop_menu", <<>>, <<>>)]
        /\ UNCHANGED orders
        /\ IF Ok(k + 5, F) THEN Deliver(u, <<"shop_menu">>, kb)
           ELSE send_error_message(u, "Failed to load shop menu", Ok(k + 6, F))

(* show_shop_menu.  Calls, after the k calls of its caller: k+1 the users  *)
(* update, k+2 the departments query, k+3 get_chat_administrators, k+4 the *)
(* categories query, k+5 the send of the menu, k+6 the send of the error.  *)
show_shop_menu(u, shop_id, F, k, db, cache) ==
    LET is_admin == is_admin_user(u, shop_id, Ok(k + 2, F), Ok(k + 3, F))
        cats == get_shop_categories(shop_id, Ok(k + 4, F))
        kb == { <<"category", shop_id, c.id>> : c \in cats }
                \cup (IF is_admin THEN {<<"add", "product", shop_id>>} ELSE {})
                \cup {<<"shop", shop_id>>}
    IN  /\ update_user_shop_interaction(u, shop_id, Ok(k + 1, F), db, cache)
        /\ user_sessions' = [user_sessions EXCEPT ![u] = Session(shop_id, "shop_menu", <<>>, <<>>)]
        /\ UNCHANGED orders
        /\ IF Ok(k + 5, F) THEN Deliver(u, <<"shop_menu">>, kb)
           ELSE send_error_message(u, "Failed to load shop menu", Ok(k + 6, F))

(* show_category_products without the test of line 391: every product of   *)
(* the category gets a button, the fault C22 excludes.                     *)
show_category_products_unfiltered(u, shop_id, category_id, F) ==
    LET category_data == get_category_data(category_id, Ok(2, F))
        prods == get_category_products(shop_id, category_id, Ok(3, F), Ok(4, F))
        kb == { <<"product", shop_id, products[i].id>> : i \in prods }
                \cup {<<"shop", shop_id>>}
    IN  /\ UNCHANGED <<orders, db_users, cache_users>>
        /\ IF category_data = <<>>
           THEN /\ UNCHANGED user_sessions
                /\ send_error_message(u, "Category not found", Ok(8, F))
           ELSE /\ user_sessions' =
                     [user_sessions EXCEPT ![u] = Session(shop_id, "category", <<category_id>>, <<>>)]
                /\ IF Ok(5, F) \/ Ok(7, F) THEN Deliver(u, <<"category">>, kb)
                   ELSE send_error_message(u, "Failed to load products", Ok(8, F))

(* show_category_products.  Calls: 2 the category read, 3 the category     *)
(* read of get_category_products, 4 its products query, 5 the edit,        *)
(* 6 the delete, 7 the send in place of the edit, 8 the send of the error. *)
show_category_products(u, shop_id, category_id, F) ==
    LET category_data == get_category_data(category_id, Ok(2, F))
        prods == get_category_products(shop_id, category_id, Ok(3, F), Ok(4, F))
        kb == { <<"product", shop_id, products[i].id>> :
                  i \in { j \in prods : products[j].isActive /\ products[j].stock > 0 } }
                \cup {<<"shop", shop_id>>}
    IN  /\ UNCHANGED <<orders, db_users, cache_users>>
        /\ IF category_data = <<>>
           THEN /\ UNCHANGED user_sessions
                /\ send_error_message(u, "Category not found", Ok(8, F))
           ELSE /\ user_sessions' =
                     [user_sessions EXCEPT ![u] = Session(shop_id, "category", <<category_id>>, <<>>)]
                /\ IF Ok(5, F) \/ Ok(7, F) THEN Deliver(u, <<"category">>, kb)
                   ELSE send_error_message(u, "Failed to load products", Ok(8, F))

(* show_product_details.  Calls: 2 the product read, 3 the categories      *)
(* query, 4 the delete, 5 the send, 8 the send of the error.               *)
show_product_details(u, shop_id, product_id, F) ==
    LET product_data == get_product_data(product_id, Ok(2, F))
        pd == product_data[1]
        session_category ==
            IF user_sessions[u] = <<>> THEN <<>> ELSE user_sessions[u][1].current_category
        matching == { c \in get_shop_categories(shop_id, Ok(3, F)) : c.name = pd.category }
        current_category ==
            IF session_category # <<>> THEN session_category
            ELSE IF pd.category # <<>> /\ matching # {}
            THEN <<(CHOOSE c \in matching : \A d \in matching : d = c \/ CatBefore(c, d)).id>>
            ELSE <<>>
        kb == (IF pd.isActive /\ pd.stock > 0 THEN {<<"order", shop_id, product_id>>} ELSE {})
                \cup { IF current_category # <<>>
                       THEN <<"category", shop_id, current_category[1]>>
                       ELSE <<"shop", shop_id>> }
    IN  /\ UNCHANGED <<orders, db_users, cache_users>>
        /\ IF product_data = <<>>
           THEN /\ UNCHANGED user_sessions
                /\ send_error_message(u, "Product not found", Ok(8, F))
           ELSE /\ user_sessions' =
                     [user_sessions EXCEPT ![u] =
                         Session(shop_id, "product", current_category, <<product_id>>)]
                /\ IF Ok(5, F) THEN Deliver(u, <<"product">>, kb)
                   ELSE send_error_message(u, "Failed to load product details", Ok(8, F))

NewOrderIds == <<"o1", "o2", "o3">>

(* handle_order without the  return  of line 578: after a failed order     *)
(* write the run goes on to the confirmation, the fault C30 excludes.      *)
handle_order_confirms_failed_write(u, shop_id, product_id, F) ==
    LET product_data == get_product_data(product_id, Ok(2, F))
        shop_data == get_shop_data(shop_id, Ok(3, F))
        order_data == [id |-> NewOrderIds[Len(orders) + 1], shopId |-> shop_id,
                       telegramId |-> u, productId |-> product_id, quantity |-> 1,
                       price |-> product_data[1].price, total |-> product_data[1].price,
                       status |-> "pending"]
    IN  /\ UNCHANGED <<db_users, cache_users, user_sessions>>
        /\ IF product_data = <<>> \/ shop_data = <<>>
           THEN /\ UNCHANGED orders
                /\ send_error_message(u, "Product or shop not found", Ok(8, F))
           ELSE /\ orders' = IF Ok(4, F) THEN Append(orders, order_data) ELSE orders
                /\ IF Ok(7, F)
                   THEN Deliver(u, <<"order_confirmation">>, {<<"product", shop_id, product_id>>})
                   ELSE send_error_message(u, "Failed to process order", Ok(8, F))

(* handle_order with the delete of the old message (lines 664-667) outside *)
(* a try block, so that its failure reaches the outer except: the fault    *)
(* C27 excludes.                                                           *)
handle_order_delete_unguarded(u, shop_id, product_id, F) ==
    LET product_data == get_product_data(product_id, Ok(2, F))
        shop_data == get_shop_data(shop_id, Ok(3, F))
        order_data == [id |-> NewOrderIds[Len(orders) + 1], shopId |-> shop_id,
                       telegramId |-> u, productId |-> product_id, quantity |-> 1,
                       price |-> product_data[1].price, total |-> product_data[1].price,
                       status |-> "pending"]
    IN  /\ UNCHANGED <<db_users, cache_users, user_sessions>>
        /\ IF product_data = <<>> \/ shop_data = <<>>
           THEN /\ UNCHANGED orders
                /\ send_error_message(u, "Product or shop not found", Ok(8, F))
           ELSE IF ~Ok(4, F)
           THEN /\ UNCHANGED orders
                /\ send_error_message(u, "Failed to save order. Please try again.", Ok(8, F))
           ELSE /\ orders' = Append(orders, order_data)
                /\ IF Ok(6, F) /\ Ok(7, F)
                   THEN Deliver(u, <<"order_confirmation">>, {<<"product", shop_id, product_id>>})
                   ELSE send_error_message(u, "Failed to process order", Ok(8, F))

(* handle_order.  Calls: 2 the product read, 3 the shop read, 4 the order  *)
(* write, 5 the approval notification (every failure in it is caught and   *)
(* it changes nothing modelled), 6 the delete, 7 the send of the           *)
(* confirmation, 8 the send of the error.                                  *)
handle_order(u, shop_id, product_id, F) ==
    LET product_data == get_product_data(product_id, Ok(2, F))
        shop_data == get_shop_data(shop_id, Ok(3, F))
        order_data == [id |-> NewOrderIds[Len(orders) + 1], shopId |-> shop_id,
                       telegramId |-> u, productId |-> product_id, quantity |-> 1,
                       price |-> product_data[1].price, total |-> product_data[1].price,
                       status |-> "pending"]
    IN  /\ UNCHANGED <<db_users, cache_users, user_sessions>>
        /\ IF product_data = <<>> \/ shop_data = <<>>
           THEN /\ UNCHANGED orders
                /\ send_error_message(u, "Product or shop not found", Ok(8, F))
           ELSE IF ~Ok(4, F)
           THEN /\ UNCHANGED orders
                /\ send_error_message(u, "Failed to save order. Please try again.", Ok(8, F))
           ELSE /\ orders' = Append(orders, order_data)
                /\ IF Ok(7, F)
                   THEN Deliver(u, <<"order_confirmation">>, {<<"product", shop_id, product_id>>})
                   ELSE send_error_message(u, "Failed to process order", Ok(8, F))

(* data.startswith(tag + '_') *)
StartsWithTag(data, tag) == Len(data) >= 2 /\ data[1] = tag

(* button_callback.  Calls: 1 query.answer(), 2 the shop read of the shop_ *)
(* branch, then those of the view, 8 the send of the error.  parts[2] of a *)
(* token of two segments is an IndexError, caught like a failed call.      *)
button_callback(u, data, F) ==
    IF ~Ok(1, F)
       \/ (Len(data) < 3 /\ \E tag \in {"category", "product", "order"} : StartsWithTag(data, tag))
    THEN /\ UNCHANGED <<orders, db_users, cache_users, user_sessions>>
         /\ send_error_message(u, "Something went wrong", Ok(8, F))
    ELSE IF StartsWithTag(data, "shop") /\ get_shop_data(data[2], Ok(2, F)) # <<>>
    THEN show_shop_menu(u, data[2], F, 2, db_users, cache_users)
    ELSE IF StartsWithTag(data, "shop")
    THEN /\ UNCHANGED <<orders, db_users, cache_users, user_sessions>>
         /\ Deliver(u, <<>>, keyboard[u])
    ELSE IF StartsWithTag(data, "category") THEN show_category_products(u, data[2], data[3], F)
    ELSE IF StartsWithTag(data, "product") THEN show_product_details(u, data[2], data[3], F)
    ELSE IF StartsWithTag(data, "order") THEN handle_order(u, data[2], data[3], F)
    ELSE /\ UNCHANGED <<orders, db_users, cache_users, user_sessions>>
         /\ Deliver(u, <<>>, keyboard[u])

NewUser == <<[last_shop_id |-> <<>>]>>

(* start_command.  Calls: 1 the users read and 2 the users write of        *)
(* get_or_create_user, 3 the shop read of get_user_last_shop, 4 the send   *)
(* of the welcome, 5..10 those of show_shop_menu, 10 the send in the       *)
(* except clause, whose failure leaves the handler by raising.             *)
start_command(u, F) ==
    LET cached == cache_users[u] # <<>>
        exists == db_users[u] # <<>>
        created == ~cached /\ Ok(1, F) /\ ~exists /\ Ok(2, F)
        userRaises == ~cached /\ (~Ok(1, F) \/ (~exists /\ ~Ok(2, F)))
        db == IF created THEN [db_users EXCEPT ![u] = NewUser] ELSE db_users
        cache == IF cached \/ userRaises THEN cache_users
                 ELSE IF exists THEN [cache_users EXCEPT ![u] = db_users[u]]
                 ELSE [cache_users EXCEPT ![u] = NewUser]
        last_shop_id == IF cache[u] = <<>> THEN <<>> ELSE cache[u][1].last_shop_id
        shopRaises == last_shop_id # <<>> /\ ~Ok(3, F)
        last_shop == IF last_shop_id = <<>> THEN <<>> ELSE get_shop_data(last_shop_id[1], TRUE)
    IN  IF ~userRaises /\ ~shopRaises /\ last_shop # <<>>
        THEN show_shop_menu(u, last_shop_id[1], F, 4, db, cache)
        ELSE /\ db_users' = db
             /\ cache_users' = cache
             /\ UNCHANGED <<orders, user_sessions>>
             /\ IF ~userRaises /\ ~shopRaises /\ Ok(4, F)
                THEN Deliver(u, <<"welcome">>, {})
                ELSE IF Ok(10, F)
                THEN Deliver(u, <<"Sorry, something went wrong. Please try again.">>, {})
                ELSE /\ sent' = [sent EXCEPT ![u] = <<>>]
                     /\ raised' = [raised EXCEPT ![u] = TRUE]
                     /\ UNCHANGED keyboard

---------------------------------------------------------------------------
(* Chat-member events.  chat_id is the chat of the event, u the member     *)
(* that joined it (no bot).                                                *)

MemberChats == {-100, -200}     \* -200: a group that is no shop's chat

(* get_shop_by_chat_id: the shop of the first staff record whose           *)
(* telegramChatId is the chat; None when the query (ok1) or the shop read  *)
(* (ok2) fails, both caught inside.  The stored telegramChatId is taken to *)
(* be the string str(chat.id) it is compared with.                         *)
get_shop_by_chat_id(chat_id, ok1, ok2) ==
    LET depts == { d \in departments : d.telegramChatId = chat_id }
    IN  IF ~ok1 \/ depts = {} THEN <<>>
        ELSE get_shop_data((CHOOSE d \in depts : TRUE).shopId, ok2)

(* track_chat_members for a member whose new status is member,             *)
(* administrator or owner.  Calls: 1 the departments query, 2 the shop     *)
(* read, 3 the users read and 4 the users write of get_or_create_user,     *)
(* 5 the users update.  Every failure is caught and logged; nothing is     *)
(* sent to the user.                                                       *)
track_chat_members(u, chat_id, F) ==
    LET shop_data == get_shop_by_chat_id(chat_id, Ok(1, F), Ok(2, F))
        cached == cache_users[u] # <<>>
        exists == db_users[u] # <<>>
        created == ~cached /\ Ok(3, F) /\ ~exists /\ Ok(4, F)
        userRaises == ~cached /\ (~Ok(3, F) \/ (~exists /\ ~Ok(4, F)))
        db == IF created THEN [db_users EXCEPT ![u] = NewUser] ELSE db_users
        cache == IF cached \/ userRaises THEN cache_users
                 ELSE IF exists THEN [cache_users EXCEPT ![u] = db_users[u]]
                 ELSE [cache_users EXCEPT ![u] = NewUser]
    IN  /\ UNCHANGED <<orders, user_sessions, keyboard>>
        /\ sent' = [sent EXCEPT ![u] = <<>>]
        /\ raised' = [raised EXCEPT ![u] = FALSE]
        /\ IF shop_data = <<>> \/ userRaises
           THEN UNCHANGED <<db_users, cache_users>>
           ELSE update_user_shop_interaction(u, shop_data[1].id, Ok(5, F), db, cache)

(* new_chat_members for a message that announces the one new member u: the *)
(* same calls in the same order.                                           *)
new_chat_members(u, chat_id, F) == track_chat_members(u, chat_id, F)

---------------------------------------------------------------------------
(* process_update with  MessageHandler(filters.PHOTO, get_product_images)  *)
(* registered on the application as well, so that a photo reaches the      *)
(* image step's handler in any state: the fault C17 excludes.              *)
process_update_photo_anywhere(u, upd, F) ==
    IF upd.kind = "command" /\ upd.data = <<"start">>
    THEN /\ start_command(u, F)
         /\ UNCHANGED <<departments, categories, products, conv, user_data>>
    ELSE IF upd.kind = "callback"
    THEN /\ button_callback(u, upd.data, F)
         /\ UNCHANGED <<departments, categories, products, conv, user_data>>
    ELSE IF upd.kind = "photo"
    THEN /\ get_product_images(u, upd.data[1], F)
         /\ UNCHANGED navVars
    ELSE IF conv_check(u, upd)
    THEN /\ conv_handler(u, upd, F)
         /\ UNCHANGED navVars
    ELSE UNCHANGED <<departments, categories, products, conv, user_data, sent, raised,
                     orders, db_users, cache_users, user_sessions, keyboard>>

(* The application: Application.process_update offers the update to the    *)
(* handlers of setup_handlers in the order of their registration, and the  *)
(* first whose check_update accepts it handles it: CommandHandler('start'),*)
(* CallbackQueryHandler(button_callback) with no pattern, which accepts    *)
(* every callback query, the two chat-member handlers (which accept none   *)
(* of the updates of a private chat modelled here), the conversation.      *)

process_update(u, upd, F) ==
    IF upd.kind = "command" /\ upd.data = <<"start">>
    THEN /\ start_command(u, F)
         /\ UNCHANGED <<departments, categories, products, conv, user_data>>
    ELSE IF upd.kind = "callback"
    THEN /\ button_callback(u, upd.data, F)
         /\ UNCHANGED <<departments, categories, products, conv, user_data>>
    ELSE IF conv_check(u, upd)
    THEN /\ conv_handler(u, upd, F)
         /\ UNCHANGED navVars
    ELSE UNCHANGED <<departments, categories, products, conv, user_data, sent, raised,
                     orders, db_users, cache_users, user_sessions, keyboard>>

NavCallbackData ==
    { <<"shop", s>> : s \in Shops }
      \cup { <<"category", "s1", c>> : c \in {"cat1", "cat9"} }
      \cup { <<"product", "s1", "p1">>, <<"order", "s1", "p1">> }

AppCallbackData == WizardCallbackData \cup NavCallbackData

(* The number of I/O calls of the handler that takes the update. *)
AppIO(u, upd) ==
    IF upd.kind = "command" /\ upd.data = <<"start">> THEN 10
    ELSE IF upd.kind = "callback" THEN 8
    ELSE IF conv_check(u, upd) THEN WizardIO(conv[u], upd)
    ELSE 0

(* Whether a handler of setup_handlers takes the update. *)
AppTakes(u, upd) ==
    \/ upd.kind = "command" /\ upd.data = <<"start">>
    \/ upd.kind = "callback"
    \/ conv_check(u, upd)

AppUpdate(u, upd) ==
    /\ WithinBounds(u, upd)
    /\ (upd.kind = "callback" /\ StartsWithTag(upd.data, "order")) => Len(orders) < MaxOrders
    /\ \E F \in Failures(AppIO(u, upd)) :
          /\ process_update(u, upd, F)
          /\ IF AppTakes(u, upd) THEN Taken(u)
             ELSE unhandled' = [unhandled EXCEPT ![u] = upd.kind]
          /\ History(u, upd, F)

Start(u) == AppUpdate(u, CommandUpdate("start"))
Press(u, d) == AppUpdate(u, CallbackUpdate(d))
Text(u, t) == AppUpdate(u, TextUpdate(t))
Photo(u, p) == AppUpdate(u, PhotoUpdate(p))
Cancel(u) == AppUpdate(u, CommandUpdate("cancel"))

Next ==
    \E u \in ActiveUsers :
        \/ Start(u)
        \/ \E d \in AppCallbackData : Press(u, d)
        \/ \E t \in Texts : Text(u, t)
        \/ \E p \in Photos : Photo(u, p)
        \/ Cancel(u)

Spec == Init /\ [][Next]_vars

---------------------------------------------------------------------------
(* Navigation with old buttons: the user also presses buttons of messages  *)
(* sent earlier, whose callback_data names a shop or a product that is     *)
(* gone, or a product that is inactive or out of stock by now.             *)

StaleCallbackData ==
    { <<"shop", "s9">>, <<"product", "s1", "p9">>, <<"order", "s1", "p9">>,
      <<"order", "s9", "p1">>, <<"product", "s1", "p2">>, <<"order", "s1", "p2">>,
      <<"order", "s1", "p3">> }

NavNext ==
    \E u \in ActiveUsers :
        \/ Start(u)
        \/ \E d \in NavCallbackData \cup StaleCallbackData : Press(u, d)

NavSpec == Init /\ [][NavNext]_vars

---------------------------------------------------------------------------
(* Navigation back and forth in shop s1: the user opens the shop, its      *)
(* categories cat1 (which lists p1) and cat3 (which lists nothing) and the *)
(* product p1, in any order, so that a press may come from the keyboard of *)
(* an earlier message.                                                     *)

BackButtons ==
    { <<"shop", "s1">>, <<"category", "s1", "cat1">>, <<"category", "s1", "cat3">>,
      <<"product", "s1", "p1">> }

BackNext ==
    \E u \in ActiveUsers :
        \/ Start(u)
        \/ \E d \in BackButtons : Press(u, d)

BackSpec == Init /\ [][BackNext]_vars

---------------------------------------------------------------------------
(* /start, shop menus and chat-member events: the handlers that read or    *)
(* write the user's document and the user's cache entry.  An event in a    *)
(* group chat belongs to no private conversation and leaves the wizard and *)
(* its history alone.                                                      *)

WizardUntouched ==
    UNCHANGED <<departments, categories, products, conv, user_data,
                script, scenario, unhandled, sessionWrites>>

Joined(u, chat_id) ==
    /\ \E F \in Failures(5) : track_chat_members(u, chat_id, F)
    /\ WizardUntouched

Announced(u, chat_id) ==
    /\ \E F \in Failures(5) : new_chat_members(u, chat_id, F)
    /\ WizardUntouched

MemberNext ==
    \E u \in ActiveUsers :
        \/ Start(u)
        \/ \E s \in Shops : Press(u, <<"shop", s>>)
        \/ \E chat_id \in MemberChats : Joined(u, chat_id)
        \/ \E chat_id \in MemberChats : Announced(u, chat_id)

MemberSpec == Init /\ [][MemberNext]_vars

---------------------------------------------------------------------------
(* Two users: the Application handles one update at a time (it is built    *)
(* without concurrent_updates), so the runs of the handlers for different  *)
(* users interleave as whole runs.  Both users navigate and both are       *)
(* offered the wizard by the ConversationHandler, with a small set of      *)
(* inputs each.                                                            *)

PairButtons == { <<"shop", "s1">>, <<"category", "s1", "cat1">> }

(* The failures of a run: none, or its first call. *)
PairFailures == { {}, {1} }

PairApp(u, upd) ==
    /\ WithinBounds(u, upd)
    /\ \E F \in PairFailures :
          /\ process_update(u, upd, F)
          /\ Taken(u)
          /\ History(u, upd, F)

PairWizard(u, upd) == \E F \in PairFailures : ConvUpdate(u, upd, F)

PairStep(u) ==
    \/ PairApp(u, CommandUpdate("start"))
    \/ \E d \in PairButtons : PairApp(u, CallbackUpdate(d))
    \/ PairWizard(u, CallbackUpdate(<<"add", "product", "s1">>))
    \/ PairWizard(u, TextUpdate(T_Espresso))
    \/ PairWizard(u, CommandUpdate("cancel"))

PairNext == \E u \in Users : PairStep(u)

PairSpec == Init /\ [][PairNext]_vars

---------------------------------------------------------------------------
(* Claims about the permission check *)

(* The staff chat ids of a shop that is_admin_user is meant to compare. *)
StaffChatIds(shop_id) ==
    UNION { chat_ids_to_check(dept) :
            dept \in { d \in departments : d.shopId = shop_id /\ d.role \in {"admin", "cashier"} } }

Related(telegram_id, shop_id) ==
    \/ ShopOwner[shop_id] = telegram_id
    \/ \E c \in StaffChatIds(shop_id) :
          telegram_id = c \/ telegram_id = -c \/ (c < 0 /\ telegram_id \in GroupAdmins)

(* C2: is_admin_user is false for every user who is neither the owner of   *)
(* the shop, nor named by a chat id of one of its admin/cashier records,   *)
(* nor an administrator of one of its staff group chats.                   *)
C2_UnrelatedUserNotAuthorized ==
    \A u \in Users, s \in Shops, gaOk \in BOOLEAN :
        is_admin_user(u, s, TRUE, gaOk) => Related(u, s)

(* C3: is_admin_user is true for the owner of the shop, also when no       *)
(* admin/cashier record names that user.                                   *)
C3_OwnerAuthorized ==
    \A s \in Shops : is_admin_user(ShopOwner[s], s, TRUE, TRUE)

---------------------------------------------------------------------------
(* Claims about the wizard *)

(* C4: start_add_product for a user whose permission check is false        *)
(* creates no session (user_data is untouched, the conversation stays      *)
(* ended), and unless a send fails the permission-denied message is sent.  *)
C4_UnauthorizedStartCreatesNoSession ==
    [][\A u \in ActiveUsers, d \in AddProductData, F \in Failures(MaxIO) :
          (/\ conv[u] = END
           /\ ~is_admin_user(u, d[3], Ok(2, F), Ok(3, F))
           /\ start_add_product(u, d, F))
          => /\ conv'[u] = END
             /\ user_data'[u] = user_data[u]
             /\ ~raised'[u] => sent'[u] = <<"permission_denied">>]_vars

C4_Witness ==
    \E u \in Users :
        /\ sent[u] = <<"permission_denied">>
        /\ conv[u] = END
        /\ user_data[u] = EmptyUserData

WrittenProducts == { products[i] : i \in (Len(InitProducts) + 1)..Len(products) }

(* C6: every product document the wizard wrote has a name of at least two  *)
(* characters, a price > 0 and a stock >= 0.                               *)
C6_WrittenProductsValid ==
    \A doc \in WrittenProducts :
        /\ Len(doc.name) >= 2
        /\ doc.price.kind = "num" /\ doc.price.cents > 0
        /\ doc.stock >= 0

(* C7: /cancel in any wizard state ends the conversation, clears the       *)
(* collected data, and no product was written for the session.             *)
C7_CancelRemovesSession ==
    [][\A u \in ActiveUsers, F \in Failures(MaxIO) :
          (conv[u] # END /\ cancel_product_creation(u, F))
          => /\ conv'[u] = END
             /\ user_data'[u] = EmptyUserData
             /\ products' = products
             /\ sessionWrites[u] = 0]_vars

(* C8: when a session ends by cancellation, the category and product       *)
(* documents are those of the session's start.                             *)
C8_CancelLeavesNoRecord ==
    [][\A u \in Users :
          (conv[u] # END /\ conv'[u] = END /\ sent'[u] = <<"cancelled">>)
          => /\ sessionWrites'[u] = 0
             /\ categories' = InitCategories]_vars

(* A text that float() rejects, or whose value is <= 0. *)
InvalidPriceText(t) ==
    LET p == ParseFloat(Strip(t))
    IN  ~p.ok \/ p.kind = "ninf" \/ (p.kind = "num" /\ p.cents <= 0)

(* C9: at PRODUCT_PRICE a text that is no number, or is <= 0, leaves the   *)
(* state and the collected fields as they are, and unless the send fails   *)
(* the reprompt is sent.                                                   *)
C9_InvalidPriceStays ==
    [][\A u \in ActiveUsers, t \in PriceTexts, F \in Failures(MaxIO) :
          (conv[u] = PRODUCT_PRICE /\ InvalidPriceText(t) /\ get_product_price(u, t, F))
          => /\ conv'[u] = PRODUCT_PRICE
             /\ user_data'[u] = user_data[u]
             /\ ~raised'[u] => sent'[u] = <<"invalid_price">>]_vars

C9_Witness ==
    \E u \in Users :
        /\ conv[u] = PRODUCT_PRICE
        /\ sent[u] = <<"invalid_price">>
        /\ user_data[u].product_data # <<>>
        /\ user_data[u].product_data[1].price = <<>>

InvalidNameText(t) == Len(Strip(t)) < 2
InvalidStockText(t) == LET n == ParseInt(Strip(t)) IN ~n.ok \/ n.v < 0

(* The first half of C10: a too short name at PRODUCT_NAME and a           *)
(* non-integer or negative stock at PRODUCT_STOCK leave the state and the  *)
(* collected fields as they are and reprompt.                              *)
InvalidNameOrStockStays ==
    \A u \in ActiveUsers, t \in NameTexts \cup StockTexts, F \in Failures(MaxIO) :
        /\ (conv[u] = PRODUCT_NAME /\ InvalidNameText(t) /\ get_product_name(u, t, F))
           => /\ conv'[u] = PRODUCT_NAME
              /\ user_data'[u] = user_data[u]
              /\ ~raised'[u] => sent'[u] = <<"name_too_short">>
        /\ (conv[u] = PRODUCT_STOCK /\ InvalidStockText(t) /\ get_product_stock(u, t, F))
           => /\ conv'[u] = PRODUCT_STOCK
              /\ user_data'[u] = user_data[u]
              /\ ~raised'[u] => sent'[u] = <<"invalid_stock">>

(* A handled input after which the wizard is in the state it was in,       *)
(* outside the image step.                                                 *)
StaysAfterInput(u) ==
    /\ conv[u] \notin {END, PRODUCT_IMAGES}
    /\ conv'[u] = conv[u]
    /\ <<user_data[u], sent[u], raised[u]>>' # <<user_data[u], sent[u], raised[u]>>

ValidationReprompts ==
    { <<"name_too_short">>, <<"invalid_price">>, <<"invalid_stock">>,
      <<"category_not_found", "error_loading_category">> }

(* C10 as stated: invalid name and stock inputs stay and reprompt, and     *)
(* outside the image step a validation failure is the only way to stay;    *)
(* read for the inputs whose handling no failed send or lookup interrupts. *)
C10_OnlyValidationFailureStays ==
    [][/\ InvalidNameOrStockStays
       /\ \A u \in Users :
             StaysAfterInput(u)
             => \/ raised'[u]
                \/ sent'[u] \in ValidationReprompts
                \/ conv[u] = PRODUCT_CATEGORY /\ sent'[u] = <<"error_loading_category">>]_vars

(* C10 amended: outside the image step the wizard stays in its state after *)
(* a handled input only when validation failed, when 'Create New Category' *)
(* was chosen at PRODUCT_CATEGORY, or when a send or lookup failed (the    *)
(* handler raised, or handle_category_selection reported the error).       *)
C10_StaysOnlyOnFailureOrNewCategory ==
    [][/\ InvalidNameOrStockStays
       /\ \A u \in Users :
             StaysAfterInput(u)
             => \/ raised'[u]
                \/ sent'[u] \in ValidationReprompts /\ user_data'[u] = user_data[u]
                \/ /\ conv[u] = PRODUCT_CATEGORY
                   /\ sent'[u] = <<"ask_category_name">>
                   /\ user_data'[u] = [user_data[u] EXCEPT !.creating_category = <<TRUE>>]
                \/ /\ conv[u] = PRODUCT_CATEGORY
                   /\ sent'[u] = <<"error_loading_category">>]_vars

C10_Witness ==
    \E u \in Users :
        /\ conv[u] = PRODUCT_CATEGORY
        /\ sent[u] = <<"ask_category_name">>
        /\ user_data[u].creating_category = <<TRUE>>
        /\ user_data[u].product_data[1].stock # <<>>

---------------------------------------------------------------------------
(* Claims about the wizard behind the application's dispatch *)

(* C1: when a user has pressed Add Product as an authorized user and then  *)
(* sent a valid name, a description, a valid price, a valid stock, the     *)
(* selection of an existing category and the finish token, every call      *)
(* succeeding, the wizard has completed: the conversation has ended, the   *)
(* success message was sent, and exactly one product was written.          *)
C1_ValidSequenceCompletesOnce ==
    \A u \in Users :
        script[u] = 7
        => /\ conv[u] = END
           /\ sent[u] = <<"product_created">>
           /\ sessionWrites[u] = 1

(* C5: an Add Product press of an authorized user, dispatched by the       *)
(* application with every call succeeding, leaves the user in              *)
(* PRODUCT_NAME with a session for the shop and no collected field.        *)
C5_AddProductPressCreatesSession ==
    [][\A u \in Users, d \in AddProductData :
          (/\ conv[u] = END
           /\ is_admin_user(u, d[3], TRUE, TRUE)
           /\ process_update(u, CallbackUpdate(d), {}))
          => /\ conv'[u] = PRODUCT_NAME
             /\ user_data'[u].shop_id = <<d[3]>>
             /\ user_data'[u].product_data = <<EmptyProductData>>]_vars

---------------------------------------------------------------------------
(* Claims about the collected fields *)

(* The skip token, as skip_images reads it: any case, spaces trimmed. *)
IsSkipToken(t) == Lower(Strip(t)) = T_skip

(* C11: at PRODUCT_DESCRIPTION the skip token stores an empty description  *)
(* and, the prompt being sent, the wizard is at PRODUCT_PRICE.             *)
C11_SkipStoresEmptyDescription ==
    [][\A u \in ActiveUsers, t \in DescriptionTexts, F \in Failures(MaxIO) :
          (/\ conv[u] = PRODUCT_DESCRIPTION
           /\ IsSkipToken(t)
           /\ get_product_description(u, t, F)
           /\ ~raised'[u])
          => /\ conv'[u] = PRODUCT_PRICE
             /\ user_data'[u].product_data[1].description = << <<>> >>]_vars

(* The characters of a document id. *)
IdText(id) ==
    IF id = "cat1" THEN <<"c", "a", "t", "1">>
    ELSE IF id = "cat2" THEN <<"c", "a", "t", "2">>
    ELSE <<"c", "a", "t", "9">>

(* C12: after the scenario (Espresso, skip, 3.50, 20, cat1, skip), every   *)
(* call succeeding, the session wrote one product, with name "Espresso",   *)
(* description "", price 3.50, stock 20, category reference "cat1",        *)
(* images [] and active.                                                   *)
C12_EspressoRecord ==
    \A u \in Users :
        scenario[u] = 7
        => /\ sessionWrites[u] = 1
           /\ LET doc == products[Len(products)]
              IN  /\ doc.name = T_Espresso
                  /\ doc.description = <<>>
                  /\ doc.price = [kind |-> "num", cents |-> 350]
                  /\ doc.stock = 20
                  /\ doc.category = IdText("cat1")
                  /\ doc.images = <<>>
                  /\ doc.isActive

---------------------------------------------------------------------------
(* Claims about the category step and about stray updates *)

(* C13: after 'Create New Category', a text of at least two characters     *)
(* sent at PRODUCT_CATEGORY creates a category of that name for the shop,  *)
(* stores its id as the product's category reference, and the wizard is    *)
(* at PRODUCT_IMAGES.                                                      *)
C13_NewCategoryCreated ==
    [][\A u \in ActiveUsers, t \in CategoryTexts :
          (/\ conv[u] = PRODUCT_CATEGORY
           /\ user_data[u].creating_category = <<TRUE>>
           /\ Len(Strip(t)) >= 2
           /\ (WizardText(u, t) \/ StrayText(u, t)))
          => /\ conv'[u] = PRODUCT_IMAGES
             /\ \E c \in categories' \ categories :
                   /\ c.name = Strip(t)
                   /\ c.shopId = user_data[u].shop_id[1]
                   /\ user_data'[u].product_data[1].category_id = <<c.id>>]_vars


(* C14: when the product write fails at completion and the error message   *)
(* is delivered, the wizard stays at PRODUCT_IMAGES with every collected   *)
(* field kept, so that the finish word can be sent again.                  *)
C14_WriteFailurePreservesSession ==
    [][\A u \in ActiveUsers, t \in ImagesTexts, F \in Failures(MaxIO) :
          (/\ conv[u] = PRODUCT_IMAGES
           /\ Lower(Strip(t)) \in FinishWords
           /\ ~DocKeyError(user_data[u])
           /\ ~Ok(1, F) /\ Ok(3, F)
           /\ skip_images(u, t, F))
          => /\ sent'[u] = <<"error_creating_product">>
             /\ products' = products
             /\ user_data'[u] = user_data[u]
             /\ conv'[u] = PRODUCT_IMAGES]_vars


(* C15: whenever the finish word at PRODUCT_IMAGES is answered with the    *)
(* product-creation error message, that run has written no product record, *)
(* whichever of its calls failed.                                          *)
C15_ErrorMessageMeansNoRecord ==
    [][\A u \in ActiveUsers, t \in ImagesTexts, F \in Failures(MaxIO) :
          (/\ conv[u] = PRODUCT_IMAGES
           /\ Lower(Strip(t)) \in FinishWords
           /\ skip_images(u, t, F)
           /\ sent'[u] = <<"error_creating_product">>)
          => products' = products]_vars


(* C16: an Add Product press of an authorized user during a conversation   *)
(* replaces the session: afterwards the user is in PRODUCT_NAME with a     *)
(* session for the pressed shop and no collected field.                    *)
C16_RestartReplacesSession ==
    [][\A u \in ActiveUsers, d \in AddProductData :
          (/\ conv[u] # END
           /\ is_admin_user(u, d[3], TRUE, TRUE)
           /\ (WizardPress(u, d) \/ StrayPress(u, d)))
          => /\ conv'[u] = PRODUCT_NAME
             /\ user_data'[u].shop_id = <<d[3]>>
             /\ user_data'[u].product_data = <<EmptyProductData>>]_vars


---------------------------------------------------------------------------
(* Claims about input outside a conversation *)

(* C17: a text or a photo the application receives from a user who is in   *)
(* no conversation leaves the user in no conversation, changes nothing in  *)
(* the user's user_data, and writes no category and no product.            *)
C17_StrayInputChangesNothing ==
    [][\A u \in ActiveUsers :
          \/ /\ conv'[u] = END
             /\ user_data' = user_data
             /\ categories' = categories
             /\ products' = products
          \/ ~ /\ conv[u] = END
               /\ \/ \E t \in Texts : Text(u, t)
                  \/ \E p \in Photos : Photo(u, p)]_vars

(* A text, and a photo, were received outside a conversation and dropped. *)
C17_Witness ==
    \E u \in ActiveUsers :
        /\ conv[u] = END
        /\ unhandled[u] \in {"text", "photo"}
        /\ user_data[u] = EmptyUserData


---------------------------------------------------------------------------
(* Claims about the image step *)

(* The images accumulated in user_data. *)
Images(ud) == IF ud.product_images = <<>> THEN <<>> ELSE ud.product_images[1]

(* C18: a photo at PRODUCT_IMAGES leaves the wizard at PRODUCT_IMAGES; the *)
(* photo acknowledged with 'Added image' is appended as the last image,    *)
(* and a run that fails leaves the accumulated images as they were.        *)
C18_PhotoAppendsOrLeavesImages ==
    [][\A u \in ActiveUsers, p \in Photos, F \in Failures(3) :
          (/\ conv[u] = PRODUCT_IMAGES
           /\ get_product_images(u, p, F))
          => /\ conv'[u] = PRODUCT_IMAGES
             /\ Images(user_data'[u]) =
                   IF sent'[u] = <<"added_image">> /\ ~raised'[u]
                   THEN Append(Images(user_data[u]), p)
                   ELSE Images(user_data[u])]_vars


---------------------------------------------------------------------------
(* Claims about the steps and the collected fields *)

(* The step that collects each field of product_data. *)
StepOf(field) ==
    CASE field = "name" -> PRODUCT_NAME
      [] field = "description" -> PRODUCT_DESCRIPTION
      [] field = "price" -> PRODUCT_PRICE
      [] field = "stock" -> PRODUCT_STOCK
      [] field = "category" -> PRODUCT_CATEGORY

(* C19: in every state of a conversation the collected fields are exactly  *)
(* the fields of the steps before the current one: a field is stored only  *)
(* together with the advance past its step, whatever call fails.           *)
C19_FieldsMatchStep ==
    \A u \in ActiveUsers :
        conv[u] # END
        => /\ HasProductData(user_data[u])
           /\ \A field \in {"name", "description", "price", "stock", "category"} :
                 (user_data[u].product_data[1][field] # <<>>) <=> (StepOf(field) < conv[u])


---------------------------------------------------------------------------
(* Claims about the failures of the permission check *)

(* The departments query of is_admin_user finds no record for the shop. *)
NoStaffRecord(shop_id) ==
    ~ \E dept \in departments : dept.shopId = shop_id /\ dept.role \in {"admin", "cashier"}

(* C20: is_admin_user is false when the shop has no admin/cashier record   *)
(* and when the departments query fails; a start_add_product run whose     *)
(* check meets either case writes nothing to the store, creates no         *)
(* session, and ends with the permission-denied message unless its own     *)
(* send fails (the check itself did not raise).                            *)
C20_PermissionCheckFailsClosed ==
    /\ [](\A u \in Users, s \in Shops, qOk \in BOOLEAN, gaOk \in BOOLEAN :
             (~qOk \/ NoStaffRecord(s)) => ~is_admin_user(u, s, qOk, gaOk))
    /\ [][\A u \in ActiveUsers, d \in AddProductData, F \in Failures(MaxIO) :
             (/\ conv[u] = END
              /\ Ok(1, F)
              /\ ~Ok(2, F) \/ NoStaffRecord(d[3])
              /\ start_add_product(u, d, F))
             => /\ departments' = departments
                /\ categories' = categories
                /\ products' = products
                /\ conv'[u] = END
                /\ user_data'[u] = user_data[u]
                /\ Ok(4, F) => ~raised'[u] /\ sent'[u] = <<"permission_denied">>]_vars

(* The Add Product press for a shop without a staff record was denied. *)
C20_Witness ==
    \E u \in ActiveUsers :
        /\ \A s \in Shops : NoStaffRecord(s) \/ is_admin_user(u, s, TRUE, TRUE)
        /\ \E s \in Shops : NoStaffRecord(s)
        /\ sent[u] = <<"permission_denied">>
        /\ ~raised[u]
        /\ conv[u] = END


---------------------------------------------------------------------------
(* Claims about navigation *)

ProductExists(product_id) == \E i \in 1..Len(products) : products[i].id = product_id
CategoryExists(category_id) == \E c \in categories : c.id = category_id

(* The button names a shop, a category or a product that does not exist. *)
ReferencesMissing(d) ==
    \/ d[1] = "shop" /\ d[2] \notin Shops
    \/ d[1] = "category" /\ (d[2] \notin Shops \/ ~CategoryExists(d[3]))
    \/ d[1] \in {"product", "order"} /\ (d[2] \notin Shops \/ ~ProductExists(d[3]))

(* C21: a shop_, category_, product_ or order_ button that names a        *)
(* missing shop, category or product, handled with every call succeeding,  *)
(* is answered with a message and leaves the user's session as it was.     *)
C21_MissingReferenceReported ==
    [][\A u \in ActiveUsers, d \in NavCallbackData \cup StaleCallbackData :
          (/\ ReferencesMissing(d)
           /\ process_update(u, CallbackUpdate(d), {}))
          => /\ sent'[u] # <<>>
             /\ user_sessions'[u] = user_sessions[u]]_vars


CategoryButtons == { d \in NavCallbackData \cup StaleCallbackData : d[1] = "category" }

(* The product buttons of a keyboard. *)
ProductButtons(kb) == { d \in kb : d[1] = "product" }

(* The buttons of the products of the shop, filed under the category's     *)
(* name, that are active and in stock.                                     *)
AvailableButtons(shop_id, category_id) ==
    { <<"product", shop_id, products[i].id>> :
        i \in { j \in 1..Len(products) :
                  /\ products[j].shopId = shop_id
                  /\ \E c \in categories : c.id = category_id /\ c.name = products[j].category
                  /\ products[j].isActive
                  /\ products[j].stock > 0 } }

C23_AddProductOfferedIffAdmin ==
    [][\A u \in ActiveUsers :
          sent'[u] = <<"shop_menu">>
          => LET shop_id == user_sessions'[u][1].current_shop
                 offered == <<"add", "product", shop_id>> \in keyboard'[u]
             IN  /\ \A F \in Failures(8) :
                       button_callback(u, <<"shop", shop_id>>, F)
                       => (offered <=> is_admin_user(u, shop_id, Ok(4, F), Ok(5, F)))
                 /\ \A F \in Failures(10) :
                       start_command(u, F)
                       => (offered <=> is_admin_user(u, shop_id, Ok(6, F), Ok(7, F)))]_vars

(* A menu without categories was delivered with the Add Product button. *)
C23_Witness ==
    \E u \in ActiveUsers, s \in Shops :
        /\ sent[u] = <<"shop_menu">>
        /\ keyboard[u] = {<<"add", "product", s>>, <<"shop", s>>}


---------------------------------------------------------------------------
(* Claims about the navigation context *)

(* The view each navigation button opens. *)
ViewOf(d) ==
    CASE d[1] = "shop" -> <<"shop_menu">>
      [] d[1] = "category" -> <<"category">>
      [] d[1] = "product" -> <<"product">>
      [] OTHER -> <<>>

NavigationButtons == { d \in NavCallbackData \cup StaleCallbackData : ViewOf(d) # <<>> }

(* Whether the session is the context of the view the button d opens: for  *)
(* a product view the category is the one show_product_details resolves.   *)
IsContextOf(session, d) ==
    /\ session # <<>>
    /\ session[1].current_shop = d[2]
    /\ CASE d[1] = "shop" -> session = Session(d[2], "shop_menu", <<>>, <<>>)
         [] d[1] = "category" -> session = Session(d[2], "category", <<d[3]>>, <<>>)
         [] d[1] = "product" ->
               session[1].current_view = "product" /\ session[1].current_product = <<d[3]>>
         [] OTHER -> FALSE

(* A successful navigation transition of u, the press of a button d that   *)
(* delivers its view or a /start that delivers the shop menu: the session  *)
(* of u is the context of the view, no other user's session changes, and   *)
(* the cached user records change only as cacheChange(u, d) allows.        *)
ViewOverwritesContext(u, cacheChange(_, _)) ==
    /\ \A d \in NavigationButtons :
          sent'[u] = ViewOf(d)
          => \/ /\ IsContextOf(user_sessions'[u], d)
                /\ cacheChange(u, d)
                /\ \A v \in Users \ {u} : user_sessions'[v] = user_sessions[v]
             \/ ~ \E F \in Failures(8) : button_callback(u, d, F)
    /\ sent'[u] = <<"shop_menu">>
          => LET d == <<"shop", user_sessions'[u][1].current_shop>>
             IN  \/ /\ IsContextOf(user_sessions'[u], d)
                    /\ cacheChange(u, d)
                    /\ \A v \in Users \ {u} : user_sessions'[v] = user_sessions[v]
                 \/ ~ \E F \in Failures(10) : start_command(u, F)

CacheUntouched(u, d) == cache_users' = cache_users

(* The cache is untouched by a category or product view; a shop menu may   *)
(* record the shop as the last shop of the viewing user.                   *)
CacheRecordsLastShop(u, d) ==
    /\ \A v \in Users \ {u} : cache_users'[v] = cache_users[v]
    /\ \/ cache_users'[u] = cache_users[u]
       \/ d[1] = "shop" /\ cache_users'[u] = <<[last_shop_id |-> <<d[2]>>]>>

(* C24 as stated: a delivered view overwrites the session of the user with *)
(* the context of the view and changes nothing else of the cache.          *)
C24_ViewChangesOnlyContext ==
    [][\A u \in ActiveUsers : ViewOverwritesContext(u, CacheUntouched)]_vars

(* C24, amended: a delivered view overwrites the session of the user with  *)
(* the context of the view; a shop menu holds the shop and the view only;  *)
(* the cache changes in no other way than that a shop menu records its     *)
(* shop as the user's last shop.                                           *)
C24_ViewOverwritesContext ==
    [][\A u \in ActiveUsers : ViewOverwritesContext(u, CacheRecordsLastShop)]_vars

(* After a product view, the shop menu was delivered to a cached user: the *)
(* session holds the shop and the view, the cache the last shop.           *)
C24_Witness ==
    \E u \in ActiveUsers, s \in Shops :
        /\ sent[u] = <<"shop_menu">>
        /\ user_sessions[u] = Session(s, "shop_menu", <<>>, <<>>)
        /\ cache_users[u] = <<[last_shop_id |-> <<s>>]>>
        /\ <<"product", "s1", "p1">> \notin keyboard[u]


---------------------------------------------------------------------------
(* Claims about different users *)

(* The wizard session and the navigation context of every user but u are   *)
(* unchanged by the step.                                                  *)
OthersUntouched(u) ==
    \A v \in Users \ {u} :
        /\ conv'[v] = conv[v]
        /\ user_data'[v] = user_data[v]
        /\ user_sessions'[v] = user_sessions[v]

(* C25: in every interleaving of the handler runs of two users, a run for  *)
(* one user leaves the wizard session and the navigation context of the    *)
(* other user unchanged.                                                   *)
C25_UsersAreIsolated ==
    [][\A u \in Users : OthersUntouched(u) \/ ~PairStep(u)]_vars

(* Both users are in a conversation, at different steps, and both have a   *)
(* navigation context, of different views.                                 *)
C25_Witness ==
    /\ conv[1] = PRODUCT_DESCRIPTION
    /\ conv[2] = PRODUCT_NAME
    /\ user_sessions[1] = Session("s1", "category", <<"cat1">>, <<>>)
    /\ user_sessions[2] = Session("s1", "shop_menu", <<>>, <<>>)


---------------------------------------------------------------------------
(* Claims about failures *)

(* C26: no run of a handler ends by raising. *)
C26_NoHandlerRaises == \A u \in Users : ~raised[u]


(* The runs in which only best-effort calls fail: for each button, the     *)
(* failure sets and the message the run must still deliver.                *)
BestEffortRuns ==
    { [d |-> <<"category", "s1", "cat1">>, F |-> {6}, msg |-> <<"category">>],
      [d |-> <<"category", "s1", "cat1">>, F |-> {5, 6}, msg |-> <<"category">>],
      [d |-> <<"product", "s1", "p1">>, F |-> {4}, msg |-> <<"product">>],
      [d |-> <<"order", "s1", "p1">>, F |-> {5}, msg |-> <<"order_confirmation">>],
      [d |-> <<"order", "s1", "p1">>, F |-> {6}, msg |-> <<"order_confirmation">>],
      [d |-> <<"order", "s1", "p1">>, F |-> {5, 6}, msg |-> <<"order_confirmation">>] }

(* C27: in every state, the run of a category_, product_ or order_ button  *)
(* in which the delete of the old message or the approval notification     *)
(* fails (and, for the category view, the edit that the delete follows)    *)
(* delivers the view or the order confirmation all the same.               *)
C27_BestEffortFailureDoesNotAbort ==
    \A u \in ActiveUsers, r \in BestEffortRuns :
        /\ ENABLED (process_update(u, CallbackUpdate(r.d), r.F) /\ sent'[u] = r.msg)
        /\ ~ ENABLED (process_update(u, CallbackUpdate(r.d), r.F) /\ sent'[u] # r.msg)

(* An order was written and its confirmation delivered. *)
C27_Witness ==
    \E u \in ActiveUsers :
        /\ sent[u] = <<"order_confirmation">>
        /\ keyboard[u] = {<<"product", "s1", "p1">>}
        /\ Len(orders) = 1
        /\ orders[1].productId = "p1"


---------------------------------------------------------------------------
(* Claims about /start *)

(* C28: when the last run delivered the menu of shop s to the user, a      *)
(* /start of that user, handled with every call succeeding, delivers the   *)
(* menu of s again.                                                        *)
C28_StartReopensLastShop ==
    [][\A u \in ActiveUsers, s \in Shops :
          (/\ sent[u] = <<"shop_menu">>
           /\ user_sessions[u] = Session(s, "shop_menu", <<>>, <<>>)
           /\ process_update(u, CommandUpdate("start"), {}))
          => /\ sent'[u] = <<"shop_menu">>
             /\ user_sessions'[u] = Session(s, "shop_menu", <<>>, <<>>)]_vars


---------------------------------------------------------------------------
(* Claims about orders *)

(* C29: an order_ button writes an order only for a product that is active *)
(* and has stock > 0 when the button is handled.                           *)
C29_OrderOnlyForAvailableProduct ==
    [][\A u \in ActiveUsers, d \in NavCallbackData \cup StaleCallbackData, F \in Failures(8) :
          (/\ orders' # orders
           /\ d[1] = "order"
           /\ button_callback(u, d, F))
          => \E i \in 1..Len(products) :
                /\ products[i].id = d[3]
                /\ products[i].isActive
                /\ products[i].stock > 0]_vars


OrderButtons == { d \in NavCallbackData \cup StaleCallbackData : d[1] = "order" }

(* The order record handle_order writes for a product. *)
IsOrderFor(order, u, shop_id, product) ==
    /\ order.shopId = shop_id
    /\ order.telegramId = u
    /\ order.productId = product.id
    /\ order.quantity = 1
    /\ order.price = product.price
    /\ order.total = product.price
    /\ order.status = "pending"

(* What the run of the order_ button d with the failures F does to the     *)
(* orders: it appends exactly one order, for the product, when it finds    *)
(* the product and the shop and its write succeeds, and leaves the orders  *)
(* as they are otherwise; the confirmation goes with a written order.      *)
OrderOutcome(u, d, F) ==
    LET found == /\ Ok(1, F)
                 /\ get_product_data(d[3], Ok(2, F)) # <<>>
                 /\ get_shop_data(d[2], Ok(3, F)) # <<>>
    IN  /\ IF found /\ Ok(4, F)
           THEN /\ Len(orders') = Len(orders) + 1
                /\ SubSeq(orders', 1, Len(orders)) = orders
                /\ IsOrderFor(orders'[Len(orders')], u, d[2], get_product_data(d[3], TRUE)[1])
           ELSE orders' = orders
        /\ sent'[u] = <<"order_confirmation">> => orders' # orders

(* C30: in every state, every run of an order_ button writes exactly one   *)
(* order (quantity 1, total the product's price, status pending) when the  *)
(* product and the shop are found and the write succeeds, writes none      *)
(* otherwise, and sends the confirmation only when it has written the      *)
(* order.                                                                  *)
C30_OneOrderPerHandledPress ==
    \A u \in ActiveUsers, d \in OrderButtons, F \in Failures(8) :
        /\ ENABLED process_update(u, CallbackUpdate(d), F)
        /\ ~ ENABLED (process_update(u, CallbackUpdate(d), F) /\ ~OrderOutcome(u, d, F))

(* An order of quantity 1 with the price of p1 as its total is pending,    *)
(* and its confirmation was delivered.                                     *)
C30_Witness ==
    \E u \in ActiveUsers, i \in 1..Len(products) :
        /\ products[i].id = "p1"
        /\ Len(orders) = 1
        /\ IsOrderFor(orders[1], u, "s1", products[i])
        /\ sent[u] = <<"order_confirmation">>

---------------------------------------------------------------------------
(* Claims about the images of a session *)

(* C31: a session started by start_add_product begins with an empty image  *)
(* list: when an Add Product press of a user in no conversation opens the  *)
(* wizard at PRODUCT_NAME, user_data holds no image, so that the record    *)
(* written at the end holds the photos of that session only.               *)
C31_NewSessionHasNoImages ==
    [][\A u \in ActiveUsers, d \in AddProductData :
          \/ Images(user_data'[u]) = <<>>
          \/ ~ /\ conv[u] = END
               /\ conv'[u] = PRODUCT_NAME
               /\ WizardPress(u, d)]_vars

---------------------------------------------------------------------------
(* Claims about the product view *)

(* C32: whenever the user's last message is a product view with a 'Back to *)
(* Products' button, the button names the shop of the view and a category  *)
(* of that shop whose product list contains the displayed product.         *)
C32_BackTargetsCategoryOfProduct ==
    \A u \in ActiveUsers :
        (sent[u] = <<"product">> /\ user_sessions[u] # <<>>)
        => \A d \in keyboard[u] :
              d[1] = "category"
              => /\ d[2] = user_sessions[u][1].current_shop
                 /\ \E c \in get_shop_categories(d[2], TRUE) : c.id = d[3]
                 /\ \E i \in get_category_products(d[2], d[3], TRUE, TRUE) :
                       <<products[i].id>> = user_sessions[u][1].current_product

---------------------------------------------------------------------------
(* Claims about callback tokens *)

(* C33: a wizard token the bot has emitted (add_product_<shop>,             *)
(* category_select_<id>, create_new_category on the keyboard of the user's *)
(* last message) is routed to the handler of its tag and is not taken for  *)
(* navigation: the press is a run of the wizard's handler for the token    *)
(* and leaves the user's navigation context as it was.                     *)
C33_WizardTokenReachesWizard ==
    [][\A u \in ActiveUsers, d \in WizardCallbackData :
          \/ /\ user_sessions'[u] = user_sessions[u]
             /\ \E F \in Failures(4) : conv_handler(u, CallbackUpdate(d), F)
          \/ ~ (d \in keyboard[u] /\ Press(u, d))]_vars

---------------------------------------------------------------------------
(* Claims about the category of a written product *)

(* C34: when the wizard writes a product for which the category button of  *)
(* the category C was pressed, the product is listed by                    *)
(* get_category_products under C of its shop and under no other category   *)
(* of that shop.                                                           *)
C34_ListedUnderSelectedCategoryOnly ==
    [][\A u \in ActiveUsers, shop_id \in Shops, selected \in CatIds :
          (/\ conv[u] = PRODUCT_IMAGES
           /\ conv'[u] = END
           /\ Len(products') = Len(products) + 1
           /\ user_data[u].shop_id = <<shop_id>>
           /\ user_data[u].product_data[1].category_id = <<selected>>)
          => \A c \in get_shop_categories(shop_id, TRUE)' :
                (Len(products') \in get_category_products(shop_id, c.id, TRUE, TRUE)')
                   <=> c.id = selected]_vars

---------------------------------------------------------------------------
(* Claims about the user cache *)

(* C35: every user in the user cache has a document in 'users', and the    *)
(* cached last_shop_id is the last_shop_id of the document.                *)
C35_CacheAgreesWithDocument ==
    \A u \in Users :
        cache_users[u] # <<>>
        => /\ db_users[u] # <<>>
           /\ cache_users[u][1].last_shop_id = db_users[u][1].last_shop_id

(* A cached user whose last shop is s1 has been shown the menu of s2 by a  *)
(* run whose users update failed: cache and document both still say s1.    *)
C35_Witness ==
    \E u \in ActiveUsers :
        /\ cache_users[u] # <<>>
        /\ cache_users[u][1].last_shop_id = <<"s1">>
        /\ db_users[u][1].last_shop_id = <<"s1">>
        /\ sent[u] = <<"shop_menu">>
        /\ user_sessions[u] = Session("s2", "shop_menu", <<>>, <<>>)

===========================================================================
